---------------------------- MODULE Spec2Model ----------------------------
(***************************************************************************)
(* Model of the data pipeline of TFDataPipeline.py:                        *)
(*   DatasetReader -> seq queue -> TFChunkingQueueRunner -> TFDataQueues   *)
(*   -> TFBatchingQueue -> consumer           (QueueDataProvider), and     *)
(*   FeedDictDataProvider (thread + bounded Queue + Condition).            *)
(*                                                                         *)
(* The TensorFlow graph code is read as the imperative program it writes   *)
(* down: the variable reads and assignments of a tf.group take effect in   *)
(* the order listed, a tf.cond runs the selected branch only, and a        *)
(* tf.while_loop body runs all the ops it creates.  Queue operations are   *)
(* the blocking points: every loop is cut into one action per blocking     *)
(* queue operation, and the queue operations of one tf.group block         *)
(* independently of each other.                                            *)
(***************************************************************************)
EXTENDS Integers, Sequences, FiniteSets, TLC

\* ------------------------------------------------------------------------
\* Bounds of the model
\* ------------------------------------------------------------------------
MaxLen == 2
MaxFeed == 3
MaxMaxSeqs == 3
MaxBatchSize == 3
ChunkQueueCapacity == 1
BatchQueueCapacity == 1
MaxSeqLen == 3
MaxFeedSeqs == 1
MaxChunkSize == 2
MaxChunkStep == 2
MaxContext == 1
SeqQueueCapacity == 1
MaxBatches == 3
MaxCapacity == 2
MaxNumSeqs == 2
MaxDataLen == 2
MaxForwardSeqs == 3
MaxForwardLen == 1
StagedNumSeqs == 2
StagedDataLen == 2
StagedMaxSeqs == 2
StagedBatchSize == 4
StagedChunkSize == 2
StagedChunkStep == 1
StagedContext == 1
ShuffleCapacity == 2      \* capacity of the chunk queue in SpecShuffle
MaxFrameLen == 2          \* frame lengths of the batch plan and of the fetched slices
QueuesMaxCapacity == 3    \* capacities of the chunk queue in SpecQueues
SharedBatches == 2        \* batches in the plan of each provider sharing a dataset
SharedSeqs == 2           \* sequences in a batch of such a provider

\* TFBatchingQueue.__init__: capacity=10
DefaultCapacity == 10

VARIABLES
  \* TFBatchingQueue
  max_seqs,            \* self.max_seqs
  batch_size,          \* self.batch_size
  queue_capacity,      \* capacity of _tf_out_queue and of _tf_batch_nums
  cur_batch_num,       \* self._cur_batch_num
  cur_max_seq_len,     \* self._cur_max_seq_len
  tf_batch_nums,       \* self._tf_batch_nums (FIFOQueue of sealed member counts)
  tf_out_queue,        \* self._tf_out_queue (PaddingFIFOQueue of records)
  batcher,             \* position of TFBatchingQueue.loop and the ops it still has to run
  last_seq_idx_var,    \* self.last_seq_idx_var
  seq_counter,         \* self.seq_counter
  batch_counter,       \* self.batch_counter
  consumer,            \* position of the consumer's dequeue_op, and the last batch it got
  \* TFDataQueues (the chunk queue)
  train_flag,          \* the global train flag
  chunk_queue_capacity, \* TFDataQueues: capacity of the train and the eval store
  train_queue,         \* self.train_queue (RandomShuffleQueue)
  eval_queue,          \* self.eval_queue (FIFOQueue)
  have_more_result,    \* history: the last answer of have_more, <<>> before the
                       \* first call, with the train flag and the store sizes it saw
  \* TFChunkingQueueRunner
  chunk_size,          \* chunk_size: <<>> for None, else <<c>>
  chunk_step,          \* chunk_step
  context_window,      \* context_window: NumbersDict, one number per data key
  source_has_epoch_end_signal,
  seq_queue,           \* the queue behind make_dequeue_op (train_seq_queue / eval_seq_queue)
  chunker,             \* position of loop_op: the sequence at hand and seq_start;
                       \* history: the records dequeued (deq) and enqueued (enq)
  \* FeedDictDataProvider
  capacity,            \* capacity of self.queue = Queue(maxsize=capacity)
  num_batches,         \* length of the batch plan self.batches
  batches_pos,         \* position of self.batches (advance)
  queue,               \* self.queue
  coord_stop,          \* self.coord.should_stop()
  cond_owner,          \* who holds the lock of self.state_change_cond
  notified,            \* the waiting consumer has been notified
  thread_finished,     \* self.thread_finished
  reached_end,         \* self.reached_end
  thread,              \* self.thread: position of thread_main
  main,                \* the consumer thread: the call it is in and its position
  fd_hist,             \* history: what was put and taken
  \* DatasetReader
  extern_data,         \* self.extern_data: which data keys there are, and their time dim
  dataset,             \* self.dataset: the lengths of its sequences, per data key
  sharing,             \* self.dataset.lock (its owner), and where in _get_next_batch
                       \* each FeedDictDataProvider sharing the dataset is
  with_seq_idx,        \* self.with_seq_idx
  with_epoch_end,      \* self.with_epoch_end
  finished_iterating_seqs,   \* self.finished_iterating_seqs
  final_num_seqs,      \* self.final_num_seqs: <<>> for None, else <<n>>
  reader,              \* position of DatasetReader.loop, its seq_idx and the record d
  rd_hist,             \* history: the calls of feed_callback, and what raised
  \* QueueDataProvider
  provider,            \* self._last_seq_idx; history: what have_more_data returned
                       \* last, and whether start_threads / stop_threads have returned
  \* history of the run, read by the properties only
  fed,                 \* number of records the environment has fed (bounded runs)
  hist                 \* what the Batcher dequeued and sealed so far

batcher_vars == <<max_seqs, batch_size, queue_capacity, cur_batch_num, cur_max_seq_len, tf_batch_nums,
                  tf_out_queue, batcher, last_seq_idx_var, seq_counter, batch_counter,
                  consumer>>
chunk_queue_vars == <<train_flag, chunk_queue_capacity, train_queue, eval_queue,
                      have_more_result>>
chunker_vars == <<chunk_size, chunk_step, context_window, source_has_epoch_end_signal,
                  seq_queue, chunker>>
feed_dict_vars == <<capacity, num_batches, batches_pos, queue, cond_owner,
                    notified, thread_finished, reached_end, thread, main, fd_hist>>
reader_vars == <<extern_data, dataset, sharing, with_seq_idx, with_epoch_end,
                 finished_iterating_seqs, final_num_seqs, reader, rd_hist>>
vars == <<batcher_vars, chunk_queue_vars, chunker_vars, feed_dict_vars, coord_stop,
          reader_vars, provider, fed, hist>>
\* what the Batcher and its consumer never touch, resp. the Chunker, resp.
\* the FeedDictDataProvider
beyond_batcher == <<chunker_vars, feed_dict_vars, coord_stop, reader_vars, provider>>
beyond_chunker == <<batcher_vars, feed_dict_vars, coord_stop, reader_vars, provider, hist>>
beyond_feed_dict == <<batcher_vars, chunk_queue_vars, chunker_vars, reader_vars, provider,
                      fed, hist>>

\* ------------------------------------------------------------------------
\* Helpers
\* ------------------------------------------------------------------------
Max(a, b) == IF a >= b THEN a ELSE b
Min(a, b) == IF a <= b THEN a ELSE b

RECURSIVE MaxOf(_)
MaxOf(s) == IF s = <<>> THEN 0 ELSE Max(Head(s), MaxOf(Tail(s)))

RemoveAt(s, i) == [j \in 1..(Len(s) - 1) |-> IF j < i THEN s[j] ELSE s[j + 1]]

Zeros(n) == [j \in 1..n |-> 0]

\* ------------------------------------------------------------------------
\* Records.  A record maps the data keys "data" (the default key) and
\* "classes", both with the time axis 0, to arrays (sequences of frames),
\* plus the size entries and the special keys seq_idx and epoch_end.
\* ------------------------------------------------------------------------
Record(idx, d, c) ==
  [seq_idx |-> idx, epoch_end |-> FALSE, data |-> d, classes |-> c,
   data_size0 |-> Len(d), classes_size0 |-> Len(c)]

\* DatasetReader._make_end_of_epoch_dict: zero-filled payload, epoch_end = True.
EndOfEpochRecord(idx) ==
  [seq_idx |-> idx, epoch_end |-> TRUE, data |-> <<>>, classes |-> <<>>,
   data_size0 |-> 0, classes_size0 |-> 0]

\* ------------------------------------------------------------------------
\* TFDataQueues: two backing stores, selected by the train flag.
\* ------------------------------------------------------------------------
\* min_after_dequeue=int(capacity * 0.8)
MinAfterDequeue(cap) == (cap * 8) \div 10

\* self.enqueue_op: enqueue into the store the train flag selects; blocks when full.
CanEnqueue == IF train_flag THEN Len(train_queue) < chunk_queue_capacity
                            ELSE Len(eval_queue) < chunk_queue_capacity

Enqueue(r) ==
  /\ CanEnqueue
  /\ IF train_flag
       THEN train_queue' = Append(train_queue, r) /\ UNCHANGED eval_queue
       ELSE eval_queue' = Append(eval_queue, r) /\ UNCHANGED train_queue
  /\ UNCHANGED <<train_flag, chunk_queue_capacity, have_more_result>>

\* DequeuePositions of a train store without the minimum fill.
DequeuePositions_NoMinFill ==
  IF train_flag
    THEN IF Len(train_queue) > 0 THEN 1..Len(train_queue) ELSE {}
    ELSE IF Len(eval_queue) > 0 THEN {1} ELSE {}

\* make_dequeue_op: the positions of the selected store a dequeue may return.
\* RandomShuffleQueue: any element, but only while min_after_dequeue elements
\* stay behind; FIFOQueue: the head.
DequeuePositions ==
  IF train_flag
    THEN IF Len(train_queue) > MinAfterDequeue(chunk_queue_capacity)
           THEN 1..Len(train_queue) ELSE {}
    ELSE IF Len(eval_queue) > 0 THEN {1} ELSE {}

DequeueAt(i) ==
  /\ IF train_flag
       THEN train_queue' = RemoveAt(train_queue, i) /\ UNCHANGED eval_queue
       ELSE eval_queue' = Tail(eval_queue) /\ UNCHANGED train_queue
  /\ UNCHANGED <<train_flag, chunk_queue_capacity, have_more_result>>

Peek(i) == IF train_flag THEN train_queue[i] ELSE eval_queue[i]

\* HaveMore looking at both stores.
HaveMore_EitherStore == Len(train_queue) > 0 \/ Len(eval_queue) > 0

\* have_more_op
HaveMore == IF train_flag THEN Len(train_queue) > 0 ELSE Len(eval_queue) > 0

\* ------------------------------------------------------------------------
\* The components a specification does not run stay as constructed.
\* ------------------------------------------------------------------------
\* FeedDictDataProvider instances on one dataset
Providers == 1..2

\* no provider has started its thread; dataset.lock is free (0)
NoSharing == [lock |-> 0,
              pos |-> [p \in Providers |-> "none"],
              left |-> [p \in Providers |-> 0],
              seq |-> [p \in Providers |-> 0]]

NoFeedDictProvider ==
  /\ capacity = 1
  /\ num_batches = 0
  /\ batches_pos = 0
  /\ queue = <<>>
  /\ coord_stop = FALSE
  /\ cond_owner = "free"
  /\ notified = FALSE
  /\ thread_finished = FALSE
  /\ reached_end = FALSE
  /\ thread = [pc |-> "none", item |-> 0, raised |-> FALSE, error |-> <<>>]
  /\ main = [pc |-> "none", call |-> "none", hmd |-> "none"]
  /\ fd_hist = [put |-> 0, taken |-> <<>>, returned_false |-> FALSE,
                stop_returned |-> FALSE, blocked_at_stop |-> FALSE]

NoDatasetReader ==
  /\ extern_data = [has_data |-> TRUE, time_dim |-> <<>>]
  /\ dataset = <<>>
  /\ sharing = NoSharing
  /\ with_seq_idx = TRUE
  /\ with_epoch_end = TRUE
  /\ finished_iterating_seqs = FALSE
  /\ final_num_seqs = <<>>
  /\ reader = [pc |-> "none", seq_idx |-> 0, d |-> <<>>, raised |-> FALSE]
  /\ rd_hist = [calls |-> <<>>, delivered |-> 0, error |-> "none"]
  /\ provider = [last_seq_idx |-> <<>>, hmd |-> "none", started |-> FALSE,
                 stopped |-> FALSE]

NoBatchingQueue ==
  /\ max_seqs = 1
  /\ queue_capacity = BatchQueueCapacity
  /\ batch_size = 1
  /\ cur_batch_num = 0
  /\ cur_max_seq_len = 0
  /\ tf_batch_nums = <<>>
  /\ tf_out_queue = <<>>
  /\ batcher = [pc |-> "stopped", num |-> <<>>, v |-> <<>>]
  /\ last_seq_idx_var = 0
  /\ seq_counter = 0
  /\ batch_counter = 0
  /\ consumer = [pc |-> "stopped", n |-> 0, part |-> <<>>, batch |-> <<>>,
                 data_got |-> 0]
  /\ hist = [deq |-> 0, sealed_sum |-> 0, stop_flushes |-> 0, pend |-> <<>>,
             last |-> <<>>, epoch_done |-> FALSE,
             step |-> <<>>]

\* ------------------------------------------------------------------------
\* TFBatchingQueue._make_enqueue_op
\* ------------------------------------------------------------------------
\* EnqueueOp with the budget flush dropping the triggering member.
EnqueueOp_DropMember(n0, m0, stop, seq_len, maxSeqs, batchSize) ==
  LET n1 == n0 + (IF stop THEN 0 ELSE 1)
      m1 == Max(m0, seq_len)
  IN  IF stop
        THEN [flush |-> <<n1>>, num |-> 0, maxlen |-> 0, rule |-> "stop"]
      ELSE IF n1 >= maxSeqs
        THEN [flush |-> <<n1>>, num |-> 0, maxlen |-> 0, rule |-> "max_seqs"]
      ELSE IF n1 >= 2 /\ m1 * n1 > batchSize
        THEN [flush |-> <<n1 - 1>>, num |-> 0, maxlen |-> 0, rule |-> "budget"]
      ELSE [flush |-> <<>>, num |-> n1, maxlen |-> m1, rule |-> "add"]

\* The update of (cur_batch_num, cur_max_seq_len) for one dequeued record and
\* the member count it seals, if any: flush is <<>> or <<count>>; rule names
\* the branch of the tf.cond taken.
EnqueueOp(n0, m0, stop, seq_len, maxSeqs, batchSize) ==
  LET n1 == n0 + (IF stop THEN 0 ELSE 1)      \* tf.assign_add(cur_batch_num, tf.where(stop, 0, 1))
      m1 == Max(m0, seq_len)                  \* tf.assign(cur_max_seq_len, tf.maximum(...))
  IN  IF stop
        THEN [flush |-> <<n1>>, num |-> 0, maxlen |-> 0, rule |-> "stop"]        \* enqueue_cur
      ELSE IF n1 >= maxSeqs
        THEN [flush |-> <<n1>>, num |-> 0, maxlen |-> 0, rule |-> "max_seqs"]    \* enqueue_cur
      ELSE IF n1 >= 2 /\ m1 * n1 > batchSize
        THEN [flush |-> <<n1 - 1>>, num |-> 1, maxlen |-> seq_len, rule |-> "budget"]
      ELSE [flush |-> <<>>, num |-> n1, maxlen |-> m1, rule |-> "add"]           \* tf.no_op()

\* seq_len = tf.shape(v[default_key])[time_dim_axis_excluding_batch]
SeqLen(v) == Len(v.data)

\* What the history keeps of one step of the Batcher on record v: the number
\* of data records dequeued in the epoch (deq), the lengths of the members
\* pending in the accumulator (pend), the batch the step seals (last), and
\* the step itself (step): the branch taken, the record's length, and the
\* values of cur_batch_num and cur_max_seq_len before it.
HistAfter(v, r) ==
  LET h0 == IF hist.epoch_done
              THEN [hist EXCEPT !.deq = 0, !.sealed_sum = 0, !.stop_flushes = 0,
                                !.epoch_done = FALSE]
              ELSE hist
      pend1 == IF v.epoch_end THEN h0.pend ELSE Append(h0.pend, SeqLen(v))
      k == IF r.flush = <<>> THEN 0 ELSE r.flush[1]
      taken == [j \in 1..Min(k, Len(pend1)) |-> pend1[j]]
  IN  [h0 EXCEPT
         !.deq = IF v.epoch_end THEN @ ELSE @ + 1,
         !.pend = IF r.flush = <<>> THEN pend1
                  ELSE [j \in 1..(Len(pend1) - Len(taken)) |-> pend1[Len(taken) + j]],
         !.last = IF r.flush = <<>> THEN @
                  ELSE <<[count |-> k, lens |-> taken, at_stop |-> v.epoch_end,
                          pending_before |-> Len(h0.pend)]>>,
         !.epoch_done = v.epoch_end,
         !.step = <<[rule |-> r.rule, stop |-> v.epoch_end, seq_len |-> SeqLen(v),
                     count_before |-> cur_batch_num,
                     max_len_before |-> cur_max_seq_len, flush |-> r.flush]>>]

\* ... and of one enqueue into _tf_batch_nums: the sum of the counts enqueued
\* in the epoch, and how many of them the sentinel's step enqueued.
HistSealed(count) ==
  [hist EXCEPT !.sealed_sum = @ + count,
               !.stop_flushes = IF hist.epoch_done THEN @ + 1 ELSE @]

\* v = self.data_queues.make_dequeue_op(), the variable updates and the
\* decision; the two enqueues are left to BatcherEnqueueNum / BatcherEnqueueOut.
BatcherDequeue ==
  /\ batcher.pc = "dequeue"
  /\ \E i \in DequeuePositions :
       LET v == Peek(i)
           r == EnqueueOp(cur_batch_num, cur_max_seq_len, v.epoch_end, SeqLen(v),
                          max_seqs, batch_size)
       IN  /\ DequeueAt(i)
           /\ cur_batch_num' = r.num
           /\ cur_max_seq_len' = r.maxlen
           /\ batcher' = [pc |-> "enqueue", num |-> r.flush, v |-> <<v>>]
           /\ hist' = HistAfter(v, r)
  /\ UNCHANGED <<max_seqs, batch_size, queue_capacity, tf_batch_nums, tf_out_queue, last_seq_idx_var,
                 seq_counter, batch_counter, consumer, beyond_batcher, fed>>

BatcherNext(b) == IF b.num = <<>> /\ b.v = <<>> THEN [b EXCEPT !.pc = "dequeue"] ELSE b

\* self._tf_batch_nums.enqueue(cur_batch_num) resp. (cur_batch_num - 1)
BatcherEnqueueNum ==
  /\ batcher.pc = "enqueue"
  /\ batcher.num # <<>>
  /\ Len(tf_batch_nums) < queue_capacity
  /\ tf_batch_nums' = Append(tf_batch_nums, batcher.num[1])
  /\ batcher' = BatcherNext([batcher EXCEPT !.num = <<>>])
  /\ hist' = HistSealed(batcher.num[1])
  /\ UNCHANGED <<max_seqs, batch_size, queue_capacity, cur_batch_num, cur_max_seq_len, tf_out_queue,
                 last_seq_idx_var, seq_counter, batch_counter, consumer,
                 chunk_queue_vars, beyond_batcher, fed>>

\* self._tf_out_queue.enqueue(v)
BatcherEnqueueOut ==
  /\ batcher.pc = "enqueue"
  /\ batcher.v # <<>>
  /\ Len(tf_out_queue) < queue_capacity
  /\ tf_out_queue' = Append(tf_out_queue, batcher.v[1])
  /\ batcher' = BatcherNext([batcher EXCEPT !.v = <<>>])
  /\ UNCHANGED <<max_seqs, batch_size, queue_capacity, cur_batch_num, cur_max_seq_len, tf_batch_nums,
                 last_seq_idx_var, seq_counter, batch_counter, consumer,
                 chunk_queue_vars, beyond_batcher, fed, hist>>

\* ------------------------------------------------------------------------
\* The consumer: dequeue_op = _tf_out_queue.dequeue_up_to(n=_tf_batch_nums.dequeue())
\* and the counter updates that every read of a data placeholder applies.
\* ------------------------------------------------------------------------
\* tf.reduce_max(dequeue_op["seq_idx"]); the maximum of no element is the
\* smallest int32
MinInt32 == (-2147483647) - 1
ReduceMaxSeqIdx(batch) ==
  IF batch = <<>> THEN MinInt32
  ELSE CHOOSE x \in {batch[j].seq_idx : j \in 1..Len(batch)} :
         \A j \in 1..Len(batch) : batch[j].seq_idx <= x

\* history: the number of data records (not sentinels) in a batch handed over
DataRecords(batch) == Len(SelectSeq(batch, LAMBDA r : ~r.epoch_end))

\* GotBatch with last_seq_idx_var assigned the batch's largest seq_idx.
GotBatch_LastOnly(batch) ==
  /\ last_seq_idx_var' = ReduceMaxSeqIdx(batch)
  /\ seq_counter' = seq_counter + Len(batch)
  /\ batch_counter' = batch_counter + 1
  /\ consumer' = [pc |-> "num", n |-> 0, part |-> <<>>, batch |-> <<batch>>,
                  data_got |-> consumer.data_got + DataRecords(batch)]

\* updates: last_seq_idx_var, seq_counter, batch_counter, applied when the
\* dequeued batch is read.
GotBatch(batch) ==
  /\ last_seq_idx_var' = Max(last_seq_idx_var, ReduceMaxSeqIdx(batch))
  /\ seq_counter' = seq_counter + Len(batch)          \* last_batch_size
  /\ batch_counter' = batch_counter + 1
  /\ consumer' = [pc |-> "num", n |-> 0, part |-> <<>>, batch |-> <<batch>>,
                  data_got |-> consumer.data_got + DataRecords(batch)]

\* n = self._tf_batch_nums.dequeue(); dequeue_up_to(0) returns at once.
ConsumerDequeueNum ==
  /\ consumer.pc = "num"
  /\ Len(tf_batch_nums) > 0
  /\ tf_batch_nums' = Tail(tf_batch_nums)
  /\ IF Head(tf_batch_nums) = 0
       THEN GotBatch(<<>>)
       ELSE /\ consumer' = [consumer EXCEPT !.pc = "up_to", !.n = Head(tf_batch_nums)]
            /\ UNCHANGED <<last_seq_idx_var, seq_counter, batch_counter>>
  /\ UNCHANGED <<max_seqs, batch_size, queue_capacity, cur_batch_num, cur_max_seq_len, tf_out_queue,
                 batcher, chunk_queue_vars, beyond_batcher, fed, hist>>

\* self._tf_out_queue.dequeue_up_to(n): the open queue hands over its elements
\* as they arrive, and the op returns once it holds n of them.
ConsumerDequeueUpTo ==
  /\ consumer.pc = "up_to"
  /\ Len(tf_out_queue) > 0
  /\ tf_out_queue' = Tail(tf_out_queue)
  /\ LET part == Append(consumer.part, Head(tf_out_queue))
     IN  IF Len(part) = consumer.n
           THEN GotBatch(part)
           ELSE /\ consumer' = [consumer EXCEPT !.part = part]
                /\ UNCHANGED <<last_seq_idx_var, seq_counter, batch_counter>>
  /\ UNCHANGED <<max_seqs, batch_size, queue_capacity, cur_batch_num, cur_max_seq_len, tf_batch_nums,
                 batcher, chunk_queue_vars, beyond_batcher, fed, hist>>

\* ------------------------------------------------------------------------
\* The Batcher alone, fed an arbitrary stream of chunk records
\* ------------------------------------------------------------------------
InitBatcherWith(cap) ==
  /\ max_seqs \in 1..MaxMaxSeqs
  /\ queue_capacity = BatchQueueCapacity
  /\ batch_size \in 1..MaxBatchSize
  /\ cur_batch_num = 0          \* self._init_op
  /\ cur_max_seq_len = 0
  /\ tf_batch_nums = <<>>
  /\ tf_out_queue = <<>>
  /\ batcher = [pc |-> "dequeue", num |-> <<>>, v |-> <<>>]
  /\ last_seq_idx_var = 0
  /\ seq_counter = 0
  /\ batch_counter = 0
  /\ consumer = [pc |-> "num", n |-> 0, part |-> <<>>, batch |-> <<>>,
                 data_got |-> 0]
  /\ train_flag \in BOOLEAN
  /\ chunk_queue_capacity = cap
  /\ have_more_result = <<>>
  /\ train_queue = <<>>
  /\ eval_queue = <<>>
  /\ chunk_size = <<>>
  /\ chunk_step = 1
  /\ context_window = [data |-> 0, classes |-> 0]
  /\ source_has_epoch_end_signal = FALSE
  /\ seq_queue = <<>>
  /\ chunker = [pc |-> "stopped", seq_item |-> <<>>, seq_start |-> 0, starts |-> <<>>,
                last |-> <<>>, deq |-> <<>>, enq |-> <<>>]
  /\ fed = 0
  /\ hist = [deq |-> 0, sealed_sum |-> 0, stop_flushes |-> 0, pend |-> <<>>,
             last |-> <<>>, epoch_done |-> FALSE,
             step |-> <<>>]
  /\ NoFeedDictProvider
  /\ NoDatasetReader

InitBatcher == InitBatcherWith(ChunkQueueCapacity)

\* The environment enqueues any chunk record, or the epoch-end sentinel.
FeedChunk ==
  /\ fed < MaxFeed
  /\ \E l \in 0..MaxLen : Enqueue(Record(fed, Zeros(l), <<>>))
  /\ fed' = fed + 1
  /\ UNCHANGED <<batcher_vars, beyond_batcher, hist>>

FeedEpochEnd ==
  /\ fed < MaxFeed
  /\ Enqueue(EndOfEpochRecord(fed))
  /\ fed' = fed + 1
  /\ UNCHANGED <<batcher_vars, beyond_batcher, hist>>

NextBatcher ==
  \/ FeedChunk
  \/ FeedEpochEnd
  \/ BatcherDequeue
  \/ BatcherEnqueueNum
  \/ BatcherEnqueueOut
  \/ ConsumerDequeueNum
  \/ ConsumerDequeueUpTo

SpecBatcher == InitBatcher /\ [][NextBatcher]_vars

\* ------------------------------------------------------------------------
\* The Batcher in training mode, behind a RandomShuffleQueue that holds
\* several records
\* ------------------------------------------------------------------------
InitShuffle ==
  /\ InitBatcherWith(ShuffleCapacity)
  /\ train_flag

SpecShuffle == InitShuffle /\ [][NextBatcher]_vars

\* ------------------------------------------------------------------------
\* TFChunkingQueueRunner
\* ------------------------------------------------------------------------
\* TFUtil.slice_pad_zeros(x, begin, end): x[begin:end] along the time axis,
\* with zeros for the positions outside [0, len(x)), of length end - begin.
SlicePadZeros(x, begin, end) ==
  [j \in 1..(end - begin) |->
     LET t == begin + j - 1
     IN  IF 0 <= t /\ t < Len(x) THEN x[t + 1] ELSE 0]

\* SeqEnd without the cut at seq_start + chunk_size.
SeqEnd_Whole(x, seq_start, chunkSize) == Len(x)

\* seq_end = tf.minimum(seq_start + chunk_size, tf.shape(seq_item[key])[0])
SeqEnd(x, seq_start, chunkSize) == Min(seq_start + chunkSize, Len(x))

\* chunk_loop_body: the chunk of seq_item that starts at seq_start.  Keys
\* without a time axis (seq_idx, epoch_end) are copied, the time-axis keys are
\* sliced with their context window and their size entry is recomputed.
ChunkLoopBody(seq_item, seq_start, chunkSize, cw) ==
  LET end_data == SeqEnd(seq_item.data, seq_start, chunkSize)
      end_classes == SeqEnd(seq_item.classes, seq_start, chunkSize)
  IN  [seq_idx |-> seq_item.seq_idx,
       epoch_end |-> seq_item.epoch_end,
       data |-> SlicePadZeros(seq_item.data, seq_start - cw.data, end_data + cw.data),
       classes |-> SlicePadZeros(seq_item.classes, seq_start - cw.classes,
                                 end_classes + cw.classes),
       data_size0 |-> end_data - seq_start + 2 * cw.data,
       classes_size0 |-> end_classes - seq_start + 2 * cw.classes]

\* default_data_seq_len = tf.shape(seq_item[default_key])[0]
DefaultDataSeqLen(seq_item) == Len(seq_item.data)

\* ChunkLoopCond with only full chunks emitted.
ChunkLoopCond_FullOnly(seq_start, seq_item) ==
  seq_start + (IF chunk_size = <<>> THEN 0 ELSE chunk_size[1]) <= DefaultDataSeqLen(seq_item)

\* ChunkLoopCond with the bound included.
ChunkLoopCond_Inclusive(seq_start, seq_item) == seq_start <= DefaultDataSeqLen(seq_item)

\* cond=lambda seq_start: tf.less(seq_start, default_data_seq_len)
ChunkLoopCond(seq_start, seq_item) == seq_start < DefaultDataSeqLen(seq_item)

\* The end of seq_loop_body: stop = seq_item["epoch_end"] if the source has
\* the signal, else False; the outer while_loop runs while not stop.
AfterSequence(c) ==
  [c EXCEPT !.pc = IF source_has_epoch_end_signal /\ c.seq_item[1].epoch_end
                     THEN "stopped" ELSE "dequeue"]

\* seq_item = make_dequeue_op()
ChunkerDequeue ==
  /\ chunker.pc = "dequeue"
  /\ Len(seq_queue) > 0
  /\ seq_queue' = Tail(seq_queue)
  /\ LET c == [chunker EXCEPT !.seq_item = <<Head(seq_queue)>>, !.seq_start = 0,
                              !.starts = <<>>, !.deq = Append(@, Head(seq_queue))]
     IN  chunker' =
           IF chunk_size = <<>> THEN [c EXCEPT !.pc = "forward"]
           ELSE IF ChunkLoopCond(0, Head(seq_queue)) THEN [c EXCEPT !.pc = "chunk"]
           ELSE AfterSequence(c)
  /\ UNCHANGED <<chunk_size, chunk_step, context_window, source_has_epoch_end_signal,
                 chunk_queue_vars, beyond_chunker, fed>>

\* ChunkerForward with the context window applied to the forwarded record.
ChunkerForward_Padded ==
  /\ chunker.pc = "forward"
  /\ LET item == ChunkLoopBody(chunker.seq_item[1], 0, Len(chunker.seq_item[1].data),
                               context_window)
     IN  /\ Enqueue(item)
         /\ chunker' = [chunker EXCEPT !.pc = "dequeue", !.last = <<item>>,
                                       !.enq = Append(@, [item |-> item, seq_start |-> 0])]
  /\ UNCHANGED <<chunk_size, chunk_step, context_window, source_has_epoch_end_signal,
                 seq_queue, beyond_chunker, fed>>

\* Chunking is not enabled: target_queue.enqueue(seq_item), and the body
\* returns before it computes stop, so the loop goes on.
ChunkerForward ==
  /\ chunker.pc = "forward"
  /\ Enqueue(chunker.seq_item[1])
  /\ chunker' = [chunker EXCEPT !.pc = "dequeue", !.last = chunker.seq_item,
                                !.enq = Append(@, [item |-> chunker.seq_item[1],
                                                   seq_start |-> 0])]
  /\ UNCHANGED <<chunk_size, chunk_step, context_window, source_has_epoch_end_signal,
                 seq_queue, beyond_chunker, fed>>

\* ChunkerEnqueueChunk emitting the chunks of a sequence last first.
ChunkerEnqueueChunk_Reversed ==
  /\ chunker.pc = "chunk"
  /\ LET last_start == ((DefaultDataSeqLen(chunker.seq_item[1]) - 1) \div chunk_step)
                          * chunk_step
         start == last_start - chunker.seq_start
         chunk == ChunkLoopBody(chunker.seq_item[1], start, chunk_size[1], context_window)
         c == [chunker EXCEPT !.seq_start = @ + chunk_step,
                              !.starts = Append(@, start),
                              !.last = <<chunk>>,
                              !.enq = Append(@, [item |-> chunk, seq_start |-> start])]
     IN  /\ Enqueue(chunk)
         /\ chunker' = IF ChunkLoopCond(c.seq_start, chunker.seq_item[1])
                         THEN c ELSE AfterSequence(c)
  /\ UNCHANGED <<chunk_size, chunk_step, context_window, source_has_epoch_end_signal,
                 seq_queue, beyond_chunker, fed>>

\* One iteration of the inner while_loop: target_queue.enqueue(chunk) and
\* seq_start + chunk_step; the loop ends when seq_start reaches the length.
ChunkerEnqueueChunk ==
  /\ chunker.pc = "chunk"
  /\ LET chunk == ChunkLoopBody(chunker.seq_item[1], chunker.seq_start, chunk_size[1],
                                context_window)
         c == [chunker EXCEPT !.seq_start = @ + chunk_step,
                              !.starts = Append(@, chunker.seq_start),
                              !.last = <<chunk>>,
                              !.enq = Append(@, [item |-> chunk,
                                                 seq_start |-> chunker.seq_start])]
     IN  /\ Enqueue(chunk)
         /\ chunker' = IF ChunkLoopCond(c.seq_start, chunker.seq_item[1])
                         THEN c ELSE AfterSequence(c)
  /\ UNCHANGED <<chunk_size, chunk_step, context_window, source_has_epoch_end_signal,
                 seq_queue, beyond_chunker, fed>>

\* ------------------------------------------------------------------------
\* The Chunker alone, fed arbitrary sequence records
\* ------------------------------------------------------------------------
\* The frames of a sequence: non-zero, each position its own value.
Frames(n) == [t \in 1..n |-> t]

\* if chunk_step is None: chunk_step = 1      (<<>> for None, else <<s>>)
ChunkStepOrDefault(step) == IF step = <<>> THEN 1 ELSE step[1]

InitChunker ==
  /\ chunk_size \in {<<>>} \cup {<<c>> : c \in 1..MaxChunkSize}
  /\ chunk_step \in {ChunkStepOrDefault(step) :
                       step \in {<<>>} \cup {<<k>> : k \in 1..MaxChunkStep}}
  /\ context_window \in [data : 0..MaxContext, classes : 0..MaxContext]
  /\ source_has_epoch_end_signal \in BOOLEAN
  /\ seq_queue = <<>>
  /\ chunker = [pc |-> "dequeue", seq_item |-> <<>>, seq_start |-> 0, starts |-> <<>>,
                last |-> <<>>, deq |-> <<>>, enq |-> <<>>]
  /\ train_flag = FALSE
  /\ chunk_queue_capacity = ChunkQueueCapacity
  /\ have_more_result = <<>>
  /\ train_queue = <<>>
  /\ eval_queue = <<>>
  /\ fed = 0
  /\ max_seqs = 1
  /\ queue_capacity = BatchQueueCapacity
  /\ batch_size = 1
  /\ cur_batch_num = 0
  /\ cur_max_seq_len = 0
  /\ tf_batch_nums = <<>>
  /\ tf_out_queue = <<>>
  /\ batcher = [pc |-> "stopped", num |-> <<>>, v |-> <<>>]
  /\ last_seq_idx_var = 0
  /\ seq_counter = 0
  /\ batch_counter = 0
  /\ consumer = [pc |-> "stopped", n |-> 0, part |-> <<>>, batch |-> <<>>,
                 data_got |-> 0]
  /\ hist = [deq |-> 0, sealed_sum |-> 0, stop_flushes |-> 0, pend |-> <<>>,
             last |-> <<>>, epoch_done |-> FALSE,
             step |-> <<>>]
  /\ NoFeedDictProvider
  /\ NoDatasetReader

\* The environment enqueues a sequence record, or the epoch-end sentinel.
FeedSeq ==
  /\ fed < MaxFeedSeqs
  /\ Len(seq_queue) < SeqQueueCapacity
  /\ \E ld \in 0..MaxSeqLen, lc \in 0..MaxSeqLen :
       seq_queue' = Append(seq_queue, Record(fed, Frames(ld), Frames(lc)))
  /\ fed' = fed + 1
  /\ UNCHANGED <<chunk_size, chunk_step, context_window, source_has_epoch_end_signal,
                 chunker, chunk_queue_vars, beyond_chunker>>

FeedSeqEpochEnd ==
  /\ fed < MaxFeedSeqs
  /\ Len(seq_queue) < SeqQueueCapacity
  /\ seq_queue' = Append(seq_queue, EndOfEpochRecord(fed))
  /\ fed' = fed + 1
  /\ UNCHANGED <<chunk_size, chunk_step, context_window, source_has_epoch_end_signal,
                 chunker, chunk_queue_vars, beyond_chunker>>

\* ... and dequeues the chunks.
DrainChunk ==
  /\ \E i \in DequeuePositions : DequeueAt(i)
  /\ UNCHANGED <<chunker_vars, beyond_chunker, fed>>

NextChunker ==
  \/ FeedSeq
  \/ FeedSeqEpochEnd
  \/ ChunkerDequeue
  \/ ChunkerForward
  \/ ChunkerEnqueueChunk
  \/ DrainChunk

SpecChunker == InitChunker /\ [][NextChunker]_vars

\* ------------------------------------------------------------------------
\* The Chunker without chunking (chunk_size=None), fed a stream of records
\* ------------------------------------------------------------------------
InitForward ==
  /\ chunk_size = <<>>
  /\ chunk_step \in {1, MaxChunkStep}
  /\ context_window \in {[data |-> 0, classes |-> 0],
                         [data |-> MaxContext, classes |-> MaxContext]}
  /\ source_has_epoch_end_signal \in BOOLEAN
  /\ seq_queue = <<>>
  /\ chunker = [pc |-> "dequeue", seq_item |-> <<>>, seq_start |-> 0, starts |-> <<>>,
                last |-> <<>>, deq |-> <<>>, enq |-> <<>>]
  /\ train_flag \in BOOLEAN
  /\ chunk_queue_capacity = ChunkQueueCapacity
  /\ have_more_result = <<>>
  /\ train_queue = <<>>
  /\ eval_queue = <<>>
  /\ fed = 0
  /\ NoBatchingQueue
  /\ NoFeedDictProvider
  /\ NoDatasetReader

FeedForward ==
  /\ fed < MaxForwardSeqs
  /\ Len(seq_queue) < SeqQueueCapacity
  /\ \/ \E l \in 0..MaxForwardLen :
          seq_queue' = Append(seq_queue, Record(fed, Frames(l), Frames(l)))
     \/ seq_queue' = Append(seq_queue, EndOfEpochRecord(fed))
  /\ fed' = fed + 1
  /\ UNCHANGED <<chunk_size, chunk_step, context_window, source_has_epoch_end_signal,
                 chunker, chunk_queue_vars, beyond_chunker>>

NextForward ==
  \/ FeedForward
  \/ ChunkerDequeue
  \/ ChunkerForward
  \/ DrainChunk

SpecForward == InitForward /\ [][NextForward]_vars

\* ------------------------------------------------------------------------
\* The Chunker and the TFBatchingQueue on one dataset: the sequences go
\* through the Chunker into the chunk queue, then the end of the epoch is
\* signalled on the chunk queue, and the TFBatchingQueue packs the stream.
\* ------------------------------------------------------------------------
Scenario ==
  [seq_lens |-> <<10, 3, 7, 10, 1>>, chunk_size |-> 4, chunk_step |-> 4,
   context_window |-> 0, max_seqs |-> 3, batch_size |-> 12]

InitScenario ==
  /\ chunk_size = <<Scenario.chunk_size>>
  /\ chunk_step = Scenario.chunk_step
  /\ context_window = [data |-> Scenario.context_window,
                       classes |-> Scenario.context_window]
  /\ source_has_epoch_end_signal = FALSE
  /\ seq_queue = <<>>
  /\ chunker = [pc |-> "dequeue", seq_item |-> <<>>, seq_start |-> 0, starts |-> <<>>,
                last |-> <<>>, deq |-> <<>>, enq |-> <<>>]
  /\ train_flag = FALSE
  /\ chunk_queue_capacity = ChunkQueueCapacity
  /\ have_more_result = <<>>
  /\ train_queue = <<>>
  /\ eval_queue = <<>>
  /\ fed = 0
  /\ max_seqs = Scenario.max_seqs
  /\ queue_capacity = DefaultCapacity
  /\ batch_size = Scenario.batch_size
  /\ cur_batch_num = 0
  /\ cur_max_seq_len = 0
  /\ tf_batch_nums = <<>>
  /\ tf_out_queue = <<>>
  /\ batcher = [pc |-> "dequeue", num |-> <<>>, v |-> <<>>]
  /\ last_seq_idx_var = 0
  /\ seq_counter = 0
  /\ batch_counter = 0
  /\ consumer = [pc |-> "num", n |-> 0, part |-> <<>>, batch |-> <<>>,
                 data_got |-> 0]
  /\ hist = [deq |-> 0, sealed_sum |-> 0, stop_flushes |-> 0, pend |-> <<>>,
             last |-> <<>>, epoch_done |-> FALSE,
             step |-> <<>>]
  /\ NoFeedDictProvider
  /\ NoDatasetReader

\* the next sequence of the dataset is fed to the sequence queue
FeedScenarioSeq ==
  /\ fed < Len(Scenario.seq_lens)
  /\ Len(seq_queue) < SeqQueueCapacity
  /\ seq_queue' = Append(seq_queue, Record(fed, Frames(Scenario.seq_lens[fed + 1]),
                                           Frames(Scenario.seq_lens[fed + 1])))
  /\ fed' = fed + 1
  /\ UNCHANGED <<chunk_size, chunk_step, context_window, source_has_epoch_end_signal,
                 chunker, chunk_queue_vars, beyond_chunker>>

\* enqueue_end_epoch_signal, once the Chunker is through with the last sequence
FeedScenarioEnd ==
  /\ fed = Len(Scenario.seq_lens)
  /\ Len(chunker.deq) = Len(Scenario.seq_lens)
  /\ chunker.pc = "dequeue"
  /\ Enqueue(EndOfEpochRecord(fed))
  /\ fed' = fed + 1
  /\ UNCHANGED <<batcher_vars, beyond_batcher, hist>>

NextScenario ==
  \/ FeedScenarioSeq
  \/ FeedScenarioEnd
  \/ ChunkerDequeue
  \/ ChunkerEnqueueChunk
  \/ BatcherDequeue
  \/ BatcherEnqueueNum
  \/ BatcherEnqueueOut
  \/ ConsumerDequeueNum
  \/ ConsumerDequeueUpTo

SpecScenario == InitScenario /\ [][NextScenario]_vars

\* ------------------------------------------------------------------------
\* FeedDictDataProvider, with the software queue (tf_queue is None).
\* The consumer is the one thread that calls start_threads, have_more_data,
\* get_feed_dict and stop_threads; thread_main runs in self.thread.
\* ------------------------------------------------------------------------
BatchesHasMore == batches_pos < num_batches          \* self.batches.has_more()

\* ---- thread_main ----
\* while self.batches.has_more() and not self.coord.should_stop():
ThreadLoop ==
  /\ thread.pc = "loop"
  /\ thread' = [thread EXCEPT !.pc = IF BatchesHasMore /\ ~coord_stop
                                       THEN "get_next_batch" ELSE "after_loop"]
  /\ UNCHANGED <<capacity, num_batches, batches_pos, queue, coord_stop, cond_owner,
                 notified, thread_finished, reached_end, main, fd_hist, beyond_feed_dict>>

\* _get_next_batch's test of a fetched slice: l the frame length planned for
\* the sequence and key, ls the length of the slice the dataset returns
\* (no slice is fetched for l = 0)
SliceLengthDiffers(l, ls) == l # 0 /\ ls # l

\* enqueue_args = self.get_next_batch(): the batch the plan peeks.  Batch i
\* of the plan holds the one sequence i.
ThreadGetNextBatch ==
  /\ thread.pc = "get_next_batch"
  /\ \E l \in 0..MaxFrameLen : \E ls \in 0..MaxFrameLen : ~SliceLengthDiffers(l, ls)
  /\ thread' = [thread EXCEPT !.pc = "put", !.item = batches_pos]
  /\ UNCHANGED <<capacity, num_batches, batches_pos, queue, coord_stop, cond_owner,
                 notified, thread_finished, reached_end, main, fd_hist, beyond_feed_dict>>

\* ThreadGetNextBatchRaises with the error swallowed and the batch stepped over.
ThreadGetNextBatchRaises_Continue ==
  /\ thread.pc = "get_next_batch"
  /\ \E l \in 0..MaxFrameLen : \E ls \in 0..MaxFrameLen :
       /\ SliceLengthDiffers(l, ls)
       /\ thread' = [thread EXCEPT !.pc = "advance", !.raised = TRUE,
                        !.error = <<[got |-> ls, expected |-> l, seq_idx |-> batches_pos]>>]
  /\ UNCHANGED <<capacity, num_batches, batches_pos, queue, coord_stop, cond_owner,
                 notified, thread_finished, reached_end, main, fd_hist, beyond_feed_dict>>

\* ... or the exception of the shape check, "got shape[0]: %i, expected: %i,
\* ... seq_idx: %i": except prints it, and control goes to finally.
ThreadGetNextBatchRaises ==
  /\ thread.pc = "get_next_batch"
  /\ \E l \in 0..MaxFrameLen : \E ls \in 0..MaxFrameLen :
       /\ SliceLengthDiffers(l, ls)
       /\ thread' = [thread EXCEPT !.pc = "finally", !.raised = TRUE,
                        !.error = <<[got |-> ls, expected |-> l, seq_idx |-> batches_pos]>>]
  /\ UNCHANGED <<capacity, num_batches, batches_pos, queue, coord_stop, cond_owner,
                 notified, thread_finished, reached_end, main, fd_hist, beyond_feed_dict>>

\* ThreadPut as a put that does not block and loses the batch when the queue is full.
ThreadPut_Dropping ==
  /\ thread.pc = "put"
  /\ queue' = IF Len(queue) < capacity THEN Append(queue, thread.item) ELSE queue
  /\ thread' = [thread EXCEPT !.pc = "notify"]
  /\ fd_hist' = [fd_hist EXCEPT !.put = @ + 1]
  /\ UNCHANGED <<capacity, num_batches, batches_pos, coord_stop, cond_owner,
                 notified, thread_finished, reached_end, main, beyond_feed_dict>>

\* self.queue.put(enqueue_args): blocks while the queue holds maxsize items
ThreadPut ==
  /\ thread.pc = "put"
  /\ Len(queue) < capacity
  /\ queue' = Append(queue, thread.item)
  /\ thread' = [thread EXCEPT !.pc = "notify"]
  /\ fd_hist' = [fd_hist EXCEPT !.put = @ + 1]
  /\ UNCHANGED <<capacity, num_batches, batches_pos, coord_stop, cond_owner,
                 notified, thread_finished, reached_end, main, beyond_feed_dict>>

\* ThreadNotify without the notifyAll.
ThreadNotify_Silent ==
  /\ thread.pc = "notify"
  /\ cond_owner = "free"
  /\ thread' = [thread EXCEPT !.pc = "advance"]
  /\ UNCHANGED <<capacity, num_batches, batches_pos, queue, coord_stop, cond_owner,
                 notified, thread_finished, reached_end, main, fd_hist, beyond_feed_dict>>

\* with self.state_change_cond: self.state_change_cond.notifyAll()
ThreadNotify ==
  /\ thread.pc = "notify"
  /\ cond_owner = "free"
  /\ notified' = (notified \/ main.pc = "hmd_wait")
  /\ thread' = [thread EXCEPT !.pc = "advance"]
  /\ UNCHANGED <<capacity, num_batches, batches_pos, queue, coord_stop, cond_owner,
                 thread_finished, reached_end, main, fd_hist, beyond_feed_dict>>

\* ThreadAdvance stepping over a batch of the plan.
ThreadAdvance_Skip ==
  /\ thread.pc = "advance"
  /\ batches_pos' = batches_pos + 2
  /\ thread' = [thread EXCEPT !.pc = "loop"]
  /\ UNCHANGED <<capacity, num_batches, queue, coord_stop, cond_owner, notified,
                 thread_finished, reached_end, main, fd_hist, beyond_feed_dict>>

\* self.batches.advance(1)
ThreadAdvance ==
  /\ thread.pc = "advance"
  /\ batches_pos' = batches_pos + 1
  /\ thread' = [thread EXCEPT !.pc = "loop"]
  /\ UNCHANGED <<capacity, num_batches, queue, coord_stop, cond_owner, notified,
                 thread_finished, reached_end, main, fd_hist, beyond_feed_dict>>

\* ThreadAfterLoop setting reached_end whenever the loop was left.
ThreadAfterLoop_AnyExit ==
  /\ thread.pc = "after_loop"
  /\ reached_end' = TRUE
  /\ thread' = [thread EXCEPT !.pc = "finally"]
  /\ UNCHANGED <<capacity, num_batches, batches_pos, queue, coord_stop, cond_owner,
                 notified, thread_finished, main, fd_hist, beyond_feed_dict>>

\* self.reached_end = not self.batches.has_more()
ThreadAfterLoop ==
  /\ thread.pc = "after_loop"
  /\ reached_end' = ~BatchesHasMore
  /\ thread' = [thread EXCEPT !.pc = "finally"]
  /\ UNCHANGED <<capacity, num_batches, batches_pos, queue, coord_stop, cond_owner,
                 notified, thread_finished, main, fd_hist, beyond_feed_dict>>

\* finally: with self.state_change_cond: thread_finished = True; notifyAll()
ThreadFinally ==
  /\ thread.pc = "finally"
  /\ cond_owner = "free"
  /\ thread_finished' = TRUE
  /\ notified' = (notified \/ main.pc = "hmd_wait")
  /\ thread' = [thread EXCEPT !.pc = "done"]
  /\ UNCHANGED <<capacity, num_batches, batches_pos, queue, coord_stop, cond_owner,
                 reached_end, main, fd_hist, beyond_feed_dict>>

ThreadMain ==
  \/ ThreadLoop
  \/ ThreadGetNextBatch
  \/ ThreadGetNextBatchRaises
  \/ ThreadPut
  \/ ThreadNotify
  \/ ThreadAdvance
  \/ ThreadAfterLoop
  \/ ThreadFinally

\* ---- start_threads ----
StartThreads ==
  /\ main.pc = "new"
  /\ thread' = [thread EXCEPT !.pc = "loop"]
  /\ main' = [main EXCEPT !.pc = "idle"]
  /\ fd_hist' = [fd_hist EXCEPT !.stop_returned = FALSE]
  /\ UNCHANGED <<capacity, num_batches, batches_pos, queue, coord_stop, cond_owner,
                 notified, thread_finished, reached_end, beyond_feed_dict>>

\* ---- have_more_data, called by the consumer or by _flush_all_data ----
CallHaveMoreData ==
  /\ main.pc = "idle"
  /\ main' = [pc |-> "hmd_acquire", call |-> "user", hmd |-> "none"]
  /\ UNCHANGED <<capacity, num_batches, batches_pos, queue, coord_stop, cond_owner,
                 notified, thread_finished, reached_end, thread, fd_hist,
                 beyond_feed_dict>>

\* with self.state_change_cond:
HmdAcquire ==
  /\ main.pc = "hmd_acquire"
  /\ cond_owner = "free"
  /\ cond_owner' = "main"
  /\ main' = [main EXCEPT !.pc = "hmd_queue"]
  /\ UNCHANGED <<capacity, num_batches, batches_pos, queue, coord_stop, notified,
                 thread_finished, reached_end, thread, fd_hist, beyond_feed_dict>>

\* The position of the caller when have_more_data returns b.
HmdReturn(b) ==
  IF main.call = "user"
    THEN [pc |-> "idle", call |-> "none", hmd |-> IF b THEN "true" ELSE "false"]
    ELSE [pc |-> IF b THEN "flush_get" ELSE "join", call |-> "stop", hmd |-> "none"]

\* HmdCheckQueue answering True also while the thread is still running.
HmdCheckQueue_Alive ==
  /\ main.pc = "hmd_queue"
  /\ IF queue # <<>> \/ ~thread_finished
       THEN /\ main' = HmdReturn(TRUE)
            /\ cond_owner' = "free"
       ELSE /\ main' = [main EXCEPT !.pc = "hmd_finished"]
            /\ UNCHANGED cond_owner
  /\ UNCHANGED <<capacity, num_batches, batches_pos, queue, coord_stop, notified,
                 thread_finished, reached_end, thread, fd_hist, beyond_feed_dict>>

\* HmdCheckQueue without the look at the queue.
HmdCheckQueue_Skip ==
  /\ main.pc = "hmd_queue"
  /\ main' = [main EXCEPT !.pc = "hmd_finished"]
  /\ UNCHANGED <<capacity, num_batches, batches_pos, queue, coord_stop, cond_owner,
                 notified, thread_finished, reached_end, thread, fd_hist,
                 beyond_feed_dict>>

\* if self.queue and not self.queue.empty(): return True
HmdCheckQueue ==
  /\ main.pc = "hmd_queue"
  /\ IF queue # <<>>
       THEN /\ main' = HmdReturn(TRUE)
            /\ cond_owner' = "free"
       ELSE /\ main' = [main EXCEPT !.pc = "hmd_finished"]
            /\ UNCHANGED cond_owner
  /\ UNCHANGED <<capacity, num_batches, batches_pos, queue, coord_stop, notified,
                 thread_finished, reached_end, thread, fd_hist, beyond_feed_dict>>

\* HmdCheckFinished returning False instead of waiting for the thread.
HmdCheckFinished_NoWait ==
  /\ main.pc = "hmd_finished"
  /\ cond_owner' = "free"
  /\ main' = HmdReturn(FALSE)
  /\ fd_hist' = [fd_hist EXCEPT !.returned_false = TRUE]
  /\ UNCHANGED <<capacity, num_batches, batches_pos, queue, coord_stop, notified,
                 thread_finished, reached_end, thread, beyond_feed_dict>>

\* if self.thread_finished: return False       (self.thread.is_alive is a
\* bound method, so "not self.thread.is_alive" never holds)
\* self.state_change_cond.wait()
HmdCheckFinished ==
  /\ main.pc = "hmd_finished"
  /\ cond_owner' = "free"
  /\ IF thread_finished
       THEN /\ main' = HmdReturn(FALSE)
            /\ fd_hist' = [fd_hist EXCEPT !.returned_false = TRUE]
            /\ UNCHANGED notified
       ELSE /\ main' = [main EXCEPT !.pc = "hmd_wait"]
            /\ notified' = FALSE
            /\ UNCHANGED fd_hist
  /\ UNCHANGED <<capacity, num_batches, batches_pos, queue, coord_stop,
                 thread_finished, reached_end, thread, beyond_feed_dict>>

\* wait() returns: notified, and the lock is taken again
HmdWake ==
  /\ main.pc = "hmd_wait"
  /\ notified
  /\ cond_owner = "free"
  /\ cond_owner' = "main"
  /\ notified' = FALSE
  /\ main' = [main EXCEPT !.pc = "hmd_queue"]
  /\ UNCHANGED <<capacity, num_batches, batches_pos, queue, coord_stop,
                 thread_finished, reached_end, thread, fd_hist, beyond_feed_dict>>

\* ---- get_feed_dict: output = self.queue.get() ----
CallGetFeedDict ==
  /\ main.pc = "idle"
  /\ main' = [main EXCEPT !.pc = "get"]
  /\ UNCHANGED <<capacity, num_batches, batches_pos, queue, coord_stop, cond_owner,
                 notified, thread_finished, reached_end, thread, fd_hist,
                 beyond_feed_dict>>

\* Queue.get(): blocks while the queue is empty, returns the oldest item
QueueGet ==
  /\ queue # <<>>
  /\ queue' = Tail(queue)
  /\ fd_hist' = [fd_hist EXCEPT !.taken = Append(@, Head(queue))]

GetFeedDict ==
  /\ main.pc = "get"
  /\ QueueGet
  /\ main' = [pc |-> "idle", call |-> "none", hmd |-> "none"]
  /\ UNCHANGED <<capacity, num_batches, batches_pos, coord_stop, cond_owner,
                 notified, thread_finished, reached_end, thread, beyond_feed_dict>>

\* ---- stop_threads ----
\* if not self.thread: return
StopThreadsNotStarted ==
  /\ main.pc = "new"
  /\ fd_hist' = [fd_hist EXCEPT !.stop_returned = TRUE]
  /\ UNCHANGED <<capacity, num_batches, batches_pos, queue, coord_stop, cond_owner,
                 notified, thread_finished, reached_end, thread, main,
                 beyond_feed_dict>>

\* CallStopThreads without _flush_all_data: request_stop, then join.
CallStopThreads_NoFlush ==
  /\ main.pc = "idle"
  /\ coord_stop' = TRUE
  /\ main' = [pc |-> "join", call |-> "stop", hmd |-> "none"]
  /\ fd_hist' = [fd_hist EXCEPT
                   !.stop_returned = FALSE,
                   !.blocked_at_stop = (thread.pc = "put" /\ Len(queue) = capacity)]
  /\ UNCHANGED <<capacity, num_batches, batches_pos, queue, cond_owner, notified,
                 thread_finished, reached_end, thread, beyond_feed_dict>>

\* self.coord.request_stop(), then _flush_all_data: while self.have_more_data(None)
CallStopThreads ==
  /\ main.pc = "idle"
  /\ coord_stop' = TRUE
  /\ main' = [pc |-> "hmd_acquire", call |-> "stop", hmd |-> "none"]
  /\ fd_hist' = [fd_hist EXCEPT
                   !.stop_returned = FALSE,
                   !.blocked_at_stop = (thread.pc = "put" /\ Len(queue) = capacity)]
  /\ UNCHANGED <<capacity, num_batches, batches_pos, queue, cond_owner, notified,
                 thread_finished, reached_end, thread, beyond_feed_dict>>

\* _flush_all_data: self.queue.get()
FlushGet ==
  /\ main.pc = "flush_get"
  /\ QueueGet
  /\ main' = [main EXCEPT !.pc = "hmd_acquire"]
  /\ UNCHANGED <<capacity, num_batches, batches_pos, coord_stop, cond_owner,
                 notified, thread_finished, reached_end, thread, beyond_feed_dict>>

\* self.thread.join()
ThreadJoin ==
  /\ main.pc = "join"
  /\ thread.pc = "done"
  /\ main' = [pc |-> "idle", call |-> "none", hmd |-> "none"]
  /\ fd_hist' = [fd_hist EXCEPT !.stop_returned = TRUE]
  /\ UNCHANGED <<capacity, num_batches, batches_pos, queue, coord_stop, cond_owner,
                 notified, thread_finished, reached_end, thread, beyond_feed_dict>>

Consumer ==
  \/ StartThreads
  \/ CallHaveMoreData
  \/ HmdAcquire
  \/ HmdCheckQueue
  \/ HmdCheckFinished
  \/ HmdWake
  \/ CallGetFeedDict
  \/ GetFeedDict
  \/ StopThreadsNotStarted
  \/ CallStopThreads
  \/ FlushGet
  \/ ThreadJoin

InitFeedDict ==
  /\ capacity \in 1..MaxCapacity
  /\ num_batches \in 0..MaxBatches
  /\ batches_pos = 0
  /\ queue = <<>>
  /\ coord_stop = FALSE
  /\ cond_owner = "free"
  /\ notified = FALSE
  /\ thread_finished = FALSE
  /\ reached_end = FALSE
  /\ thread = [pc |-> "none", item |-> 0, raised |-> FALSE, error |-> <<>>]
  /\ main = [pc |-> "new", call |-> "none", hmd |-> "none"]
  /\ fd_hist = [put |-> 0, taken |-> <<>>, returned_false |-> FALSE,
                stop_returned |-> FALSE, blocked_at_stop |-> FALSE]
  /\ max_seqs = 1
  /\ queue_capacity = BatchQueueCapacity
  /\ batch_size = 1
  /\ cur_batch_num = 0
  /\ cur_max_seq_len = 0
  /\ tf_batch_nums = <<>>
  /\ tf_out_queue = <<>>
  /\ batcher = [pc |-> "stopped", num |-> <<>>, v |-> <<>>]
  /\ last_seq_idx_var = 0
  /\ seq_counter = 0
  /\ batch_counter = 0
  /\ consumer = [pc |-> "stopped", n |-> 0, part |-> <<>>, batch |-> <<>>,
                 data_got |-> 0]
  /\ train_flag = FALSE
  /\ chunk_queue_capacity = ChunkQueueCapacity
  /\ have_more_result = <<>>
  /\ train_queue = <<>>
  /\ eval_queue = <<>>
  /\ chunk_size = <<>>
  /\ chunk_step = 1
  /\ context_window = [data |-> 0, classes |-> 0]
  /\ source_has_epoch_end_signal = FALSE
  /\ seq_queue = <<>>
  /\ chunker = [pc |-> "stopped", seq_item |-> <<>>, seq_start |-> 0, starts |-> <<>>,
                last |-> <<>>, deq |-> <<>>, enq |-> <<>>]
  /\ fed = 0
  /\ hist = [deq |-> 0, sealed_sum |-> 0, stop_flushes |-> 0, pend |-> <<>>,
             last |-> <<>>, epoch_done |-> FALSE,
             step |-> <<>>]
  /\ NoDatasetReader

\* have_reached_end()
HaveReachedEnd == reached_end

NextFeedDict == ThreadMain \/ Consumer

SpecFeedDict == InitFeedDict /\ [][NextFeedDict]_vars

\* The threads are scheduled fairly: a thread that can take its next step
\* (is not blocked in put, get, wait, join or on the lock) takes it.  The
\* consumer is free never to call anything when it is idle.
ConsumerInCall == Consumer /\ main.pc \notin {"new", "idle"}

FairSpecFeedDict == SpecFeedDict /\ WF_vars(ThreadMain) /\ WF_vars(ConsumerInCall)

\* ------------------------------------------------------------------------
\* DatasetReader.loop, over a constructed reader.  extern_data either has no
\* ordinary data key, or the keys "data" and "classes" with the time axis 0,
\* whose dim is time_dim: <<>> for None (variable length), else <<T>>.
\* ------------------------------------------------------------------------
\* self.dataset.is_less_than_num_seqs(seq_idx)
IsLessThanNumSeqs(seq_idx) == seq_idx < Len(dataset)

\* self.dict_keys, the keys of the records
DictKeys ==
  (IF extern_data.has_data THEN {"data", "classes"} ELSE {})
    \cup (IF extern_data.has_data /\ extern_data.time_dim = <<>>
            THEN {"data_size0", "classes_size0"} ELSE {})      \* get_axes_with_size()
    \cup (IF with_seq_idx THEN {"seq_idx"} ELSE {})
    \cup (IF with_epoch_end THEN {"epoch_end"} ELSE {})

\* the dict d of the sequence seq_idx
DataDict(seq_idx) ==
  LET full == Record(seq_idx, Frames(dataset[seq_idx + 1].data),
                     Frames(dataset[seq_idx + 1].classes))
  IN  [k \in DictKeys |-> full[k]]

\* numpy.zeros(shape) raises for a shape that holds None
EndOfEpochDictRaises == extern_data.has_data /\ extern_data.time_dim = <<>>

\* self._make_end_of_epoch_dict(seq_idx): zeros of the keys' shapes,
\* d["seq_idx"] = seq_idx if with_seq_idx, d["epoch_end"] = True
EndOfEpochDict(seq_idx) ==
  LET n == IF extern_data.time_dim = <<>> THEN 0 ELSE extern_data.time_dim[1]
      full == [seq_idx |-> seq_idx, epoch_end |-> TRUE, data |-> Zeros(n),
               classes |-> Zeros(n), data_size0 |-> 0, classes_size0 |-> 0]
  IN  [k \in DictKeys \cup {"epoch_end"} |-> full[k]]

\* what DatasetReader.loop never touches
beyond_reader == <<batcher_vars, chunk_queue_vars, chunk_size, chunk_step, context_window,
                   source_has_epoch_end_signal, chunker, feed_dict_vars, provider, fed,
                   hist>>

\* One pass of the while loop up to the call of feed_callback.  The history
\* keeps, for each call, whether the stop had been requested when the pass began.
ReaderNext ==
  /\ reader.pc = "loop"
  /\ IF ~IsLessThanNumSeqs(reader.seq_idx)
       THEN /\ finished_iterating_seqs' = TRUE
            /\ final_num_seqs' = <<reader.seq_idx>>
            /\ IF ~with_epoch_end
                 THEN /\ reader' = [reader EXCEPT !.pc = "done"]               \* break
                      /\ UNCHANGED <<coord_stop, rd_hist>>
               ELSE IF EndOfEpochDictRaises
                 THEN /\ reader' = [reader EXCEPT !.pc = "done", !.raised = TRUE]
                      /\ coord_stop' = TRUE                       \* stop_on_exception
                      /\ rd_hist' = [rd_hist EXCEPT !.error = "end_of_epoch_dict"]
               ELSE /\ reader' = [reader EXCEPT !.pc = "feed",
                                                !.d = <<EndOfEpochDict(reader.seq_idx)>>]
                    /\ rd_hist' = [rd_hist EXCEPT !.calls =
                         Append(@, [seq_idx |-> reader.seq_idx, epoch_end |-> TRUE,
                                    d |-> EndOfEpochDict(reader.seq_idx),
                                    after_stop |-> coord_stop])]
                    /\ UNCHANGED coord_stop
     ELSE IF coord_stop                                        \* self.coord.should_stop()
       THEN /\ reader' = [reader EXCEPT !.pc = "done"]
            /\ UNCHANGED <<finished_iterating_seqs, final_num_seqs, coord_stop, rd_hist>>
     ELSE /\ reader' = [reader EXCEPT !.pc = "feed", !.d = <<DataDict(reader.seq_idx)>>]
          /\ rd_hist' = [rd_hist EXCEPT !.calls =
               Append(@, [seq_idx |-> reader.seq_idx, epoch_end |-> FALSE,
                          d |-> DataDict(reader.seq_idx),
                          after_stop |-> coord_stop])]
          /\ UNCHANGED <<finished_iterating_seqs, final_num_seqs, coord_stop>>
  /\ UNCHANGED <<extern_data, dataset, sharing, with_seq_idx, with_epoch_end, seq_queue,
                 beyond_reader>>

\* ReaderGetDataRaises with the error swallowed and the index skipped.
ReaderGetDataRaises_Skip ==
  /\ reader.pc = "loop"
  /\ IsLessThanNumSeqs(reader.seq_idx)
  /\ ~coord_stop
  /\ reader' = [reader EXCEPT !.seq_idx = @ + 1]
  /\ rd_hist' = [rd_hist EXCEPT !.error = "get_data"]
  /\ UNCHANGED <<extern_data, dataset, sharing, with_seq_idx, with_epoch_end,
                 finished_iterating_seqs, final_num_seqs, seq_queue, coord_stop,
                 beyond_reader>>

\* ReaderGetDataRaises recording the index reached as the end of the epoch.
ReaderGetDataRaises_Finishes ==
  /\ reader.pc = "loop"
  /\ IsLessThanNumSeqs(reader.seq_idx)
  /\ ~coord_stop
  /\ reader' = [reader EXCEPT !.pc = "done", !.raised = TRUE]
  /\ coord_stop' = TRUE
  /\ finished_iterating_seqs' = TRUE
  /\ final_num_seqs' = <<reader.seq_idx>>
  /\ rd_hist' = [rd_hist EXCEPT !.error = "get_data"]
  /\ UNCHANGED <<extern_data, dataset, sharing, with_seq_idx, with_epoch_end, seq_queue,
                 beyond_reader>>

\* self.dataset.get_data / get_tag raises: stop_on_exception requests the stop.
ReaderGetDataRaises ==
  /\ reader.pc = "loop"
  /\ IsLessThanNumSeqs(reader.seq_idx)
  /\ ~coord_stop
  /\ reader' = [reader EXCEPT !.pc = "done", !.raised = TRUE]
  /\ coord_stop' = TRUE                                  \* stop_on_exception
  /\ rd_hist' = [rd_hist EXCEPT !.error = "get_data"]
  /\ UNCHANGED <<extern_data, dataset, sharing, with_seq_idx, with_epoch_end,
                 finished_iterating_seqs, final_num_seqs, seq_queue,
                 beyond_reader>>

\* ReaderFeed without seq_idx += 1.
ReaderFeed_NoAdvance ==
  /\ reader.pc = "feed"
  /\ Len(seq_queue) < SeqQueueCapacity
  /\ seq_queue' = Append(seq_queue, reader.d[1])
  /\ IF rd_hist.calls[Len(rd_hist.calls)].epoch_end
       THEN /\ reader' = [reader EXCEPT !.pc = "done", !.d = <<>>]
            /\ UNCHANGED rd_hist
       ELSE /\ reader' = [reader EXCEPT !.pc = "loop", !.d = <<>>]
            /\ rd_hist' = [rd_hist EXCEPT !.delivered = @ + 1]
  /\ UNCHANGED <<extern_data, dataset, sharing, with_seq_idx, with_epoch_end,
                 finished_iterating_seqs, final_num_seqs, coord_stop,
                 beyond_reader>>

\* self.feed_callback(d) returns: init_dataset's feed_callback, the blocking
\* enqueue into the sequence queue.  After the sentinel: break; else seq_idx += 1.
ReaderFeed ==
  /\ reader.pc = "feed"
  /\ Len(seq_queue) < SeqQueueCapacity
  /\ seq_queue' = Append(seq_queue, reader.d[1])
  /\ IF rd_hist.calls[Len(rd_hist.calls)].epoch_end
       THEN /\ reader' = [reader EXCEPT !.pc = "done", !.d = <<>>]
            /\ UNCHANGED rd_hist
       ELSE /\ reader' = [reader EXCEPT !.pc = "loop", !.d = <<>>,
                                        !.seq_idx = @ + 1]
            /\ rd_hist' = [rd_hist EXCEPT !.delivered = @ + 1]
  /\ UNCHANGED <<extern_data, dataset, sharing, with_seq_idx, with_epoch_end,
                 finished_iterating_seqs, final_num_seqs, coord_stop,
                 beyond_reader>>

\* self.feed_callback(d) raises
ReaderFeedRaises ==
  /\ reader.pc = "feed"
  /\ reader' = [reader EXCEPT !.pc = "done", !.d = <<>>, !.raised = TRUE]
  /\ coord_stop' = TRUE
  /\ rd_hist' = [rd_hist EXCEPT !.error = "feed_callback"]
  /\ UNCHANGED <<extern_data, dataset, sharing, with_seq_idx, with_epoch_end,
                 finished_iterating_seqs, final_num_seqs, seq_queue,
                 beyond_reader>>

Loop ==
  \/ ReaderNext
  \/ ReaderGetDataRaises
  \/ ReaderFeed
  \/ ReaderFeedRaises

\* ------------------------------------------------------------------------
\* The DatasetReader alone: something dequeues the sequence queue, and any
\* thread may request the coordinator to stop.
\* ------------------------------------------------------------------------
\* the datasets: up to MaxNumSeqs sequences of up to MaxDataLen frames
Datasets(num, lens) ==
  UNION {[1..n -> [data : lens, classes : lens]] : n \in 0..num}

InitReader ==
  /\ extern_data \in [has_data : BOOLEAN,
                      time_dim : {<<>>} \cup {<<t>> : t \in 0..MaxDataLen}]
  /\ sharing = NoSharing
  /\ dataset \in Datasets(MaxNumSeqs, IF extern_data.time_dim = <<>> THEN 0..MaxDataLen
                                      ELSE {extern_data.time_dim[1]})
  /\ (~extern_data.has_data => extern_data.time_dim = <<>>)
  /\ \A i \in 1..Len(dataset) : dataset[i].classes = dataset[i].data
  /\ with_seq_idx \in BOOLEAN
  /\ with_epoch_end \in BOOLEAN
  /\ finished_iterating_seqs = FALSE
  /\ final_num_seqs = <<>>
  /\ reader = [pc |-> "loop", seq_idx |-> 0, d |-> <<>>, raised |-> FALSE]
  /\ rd_hist = [calls |-> <<>>, delivered |-> 0, error |-> "none"]
  /\ provider = [last_seq_idx |-> <<>>, hmd |-> "none", started |-> FALSE,
                 stopped |-> FALSE]
  /\ coord_stop = FALSE
  /\ seq_queue = <<>>
  /\ chunk_size = <<>>
  /\ chunk_step = 1
  /\ context_window = [data |-> 0, classes |-> 0]
  /\ source_has_epoch_end_signal = FALSE
  /\ chunker = [pc |-> "stopped", seq_item |-> <<>>, seq_start |-> 0, starts |-> <<>>,
                last |-> <<>>, deq |-> <<>>, enq |-> <<>>]
  /\ train_flag = FALSE
  /\ chunk_queue_capacity = ChunkQueueCapacity
  /\ have_more_result = <<>>
  /\ train_queue = <<>>
  /\ eval_queue = <<>>
  /\ max_seqs = 1
  /\ queue_capacity = BatchQueueCapacity
  /\ batch_size = 1
  /\ cur_batch_num = 0
  /\ cur_max_seq_len = 0
  /\ tf_batch_nums = <<>>
  /\ tf_out_queue = <<>>
  /\ batcher = [pc |-> "stopped", num |-> <<>>, v |-> <<>>]
  /\ last_seq_idx_var = 0
  /\ seq_counter = 0
  /\ batch_counter = 0
  /\ consumer = [pc |-> "stopped", n |-> 0, part |-> <<>>, batch |-> <<>>,
                 data_got |-> 0]
  /\ fed = 0
  /\ hist = [deq |-> 0, sealed_sum |-> 0, stop_flushes |-> 0, pend |-> <<>>,
             last |-> <<>>, epoch_done |-> FALSE,
             step |-> <<>>]
  /\ capacity = 1
  /\ num_batches = 0
  /\ batches_pos = 0
  /\ queue = <<>>
  /\ cond_owner = "free"
  /\ notified = FALSE
  /\ thread_finished = FALSE
  /\ reached_end = FALSE
  /\ thread = [pc |-> "none", item |-> 0, raised |-> FALSE, error |-> <<>>]
  /\ main = [pc |-> "none", call |-> "none", hmd |-> "none"]
  /\ fd_hist = [put |-> 0, taken |-> <<>>, returned_false |-> FALSE,
                stop_returned |-> FALSE, blocked_at_stop |-> FALSE]

\* the dequeue of the sequence queue
DrainSeq ==
  /\ seq_queue # <<>>
  /\ seq_queue' = Tail(seq_queue)
  /\ UNCHANGED <<reader_vars, coord_stop, beyond_reader>>

\* coord.request_stop()
RequestStop ==
  /\ ~coord_stop
  /\ coord_stop' = TRUE
  /\ UNCHANGED <<reader_vars, seq_queue, beyond_reader>>

NextReader ==
  \/ Loop
  \/ DrainSeq
  \/ RequestStop

SpecReader == InitReader /\ [][NextReader]_vars

\* ------------------------------------------------------------------------
\* QueueDataProvider: the staged pipeline.  The DatasetReader feeds the
\* sequence queue of the train resp. eval dataset, the chunker of that
\* dataset fills the chunk queue, the TFBatchingQueue packs the chunks, and
\* the consumer reads the batches and asks have_more_data.  The reader is
\* the one init_dataset means to create: with seq_idx and epoch_end, which
\* the chunker and the TFBatchingQueue read.
\* ------------------------------------------------------------------------
\* self._update_last_seq_idx and have_more_data, called from the thread that
\* runs the main computation graph, between two reads of a batch
HaveMoreData ==
  /\ reader.pc # "none"                          \* assert self.cur_dataset_reader
  /\ consumer.pc = "num"
  /\ provider' =
       IF final_num_seqs = <<>>
         THEN [provider EXCEPT !.hmd = "true"]
         ELSE [provider EXCEPT
                 !.last_seq_idx = <<last_seq_idx_var>>,
                 !.hmd = IF last_seq_idx_var + 1 >= final_num_seqs[1]    \* is_at_end
                           THEN "false" ELSE "true"]
  /\ UNCHANGED <<batcher_vars, chunk_queue_vars, chunker_vars, feed_dict_vars,
                 coord_stop, reader_vars, fed, hist>>

\* start_threads: pass
QueueStartThreads ==
  /\ reader.pc # "none"
  /\ consumer.pc = "num"
  /\ ~provider.started
  /\ provider' = [provider EXCEPT !.started = TRUE]
  /\ UNCHANGED <<batcher_vars, chunk_queue_vars, chunker_vars, feed_dict_vars,
                 coord_stop, reader_vars, fed, hist>>

\* stop_threads: pass
QueueStopThreads ==
  /\ reader.pc # "none"
  /\ consumer.pc = "num"
  /\ provider.started
  /\ ~provider.stopped
  /\ provider' = [provider EXCEPT !.stopped = TRUE]
  /\ UNCHANGED <<batcher_vars, chunk_queue_vars, chunker_vars, feed_dict_vars,
                 coord_stop, reader_vars, fed, hist>>

\* train_chunker: chunk_size=50, chunk_step=25, context_window=5;
\* eval_chunker: no chunking; batch_queue: batch_size=5000, max_seqs=40
InitStaged ==
  /\ train_flag \in BOOLEAN
  /\ chunk_queue_capacity = ChunkQueueCapacity
  /\ have_more_result = <<>>
  /\ chunk_size = IF train_flag THEN <<StagedChunkSize>> ELSE <<>>
  /\ chunk_step = IF train_flag THEN StagedChunkStep ELSE 1
  /\ context_window = [data |-> StagedContext, classes |-> 0]
  /\ source_has_epoch_end_signal = FALSE
  /\ max_seqs \in 1..StagedMaxSeqs
  /\ queue_capacity = BatchQueueCapacity
  /\ batch_size = StagedBatchSize
  /\ extern_data \in [has_data : {TRUE}, time_dim : {<<>>, <<StagedDataLen>>}]
  /\ sharing = NoSharing
  /\ dataset \in Datasets(StagedNumSeqs, IF extern_data.time_dim = <<>>
                                           THEN {1, StagedDataLen}
                                           ELSE {extern_data.time_dim[1]})
  /\ \A i \in 1..Len(dataset) : dataset[i].classes = dataset[i].data
  /\ with_seq_idx = TRUE
  /\ with_epoch_end = TRUE
  /\ finished_iterating_seqs = FALSE
  /\ final_num_seqs = <<>>
  /\ reader = [pc |-> "loop", seq_idx |-> 0, d |-> <<>>, raised |-> FALSE]
  /\ rd_hist = [calls |-> <<>>, delivered |-> 0, error |-> "none"]
  /\ provider = [last_seq_idx |-> <<>>, hmd |-> "none", started |-> FALSE,
                 stopped |-> FALSE]
  /\ coord_stop = FALSE
  /\ seq_queue = <<>>
  /\ chunker = [pc |-> "dequeue", seq_item |-> <<>>, seq_start |-> 0, starts |-> <<>>,
                last |-> <<>>, deq |-> <<>>, enq |-> <<>>]
  /\ train_queue = <<>>
  /\ eval_queue = <<>>
  /\ cur_batch_num = 0
  /\ cur_max_seq_len = 0
  /\ tf_batch_nums = <<>>
  /\ tf_out_queue = <<>>
  /\ batcher = [pc |-> "dequeue", num |-> <<>>, v |-> <<>>]
  /\ last_seq_idx_var = 0
  /\ seq_counter = 0
  /\ batch_counter = 0
  /\ consumer = [pc |-> "num", n |-> 0, part |-> <<>>, batch |-> <<>>,
                 data_got |-> 0]
  /\ fed = 0
  /\ hist = [deq |-> 0, sealed_sum |-> 0, stop_flushes |-> 0, pend |-> <<>>,
             last |-> <<>>, epoch_done |-> FALSE,
             step |-> <<>>]
  /\ capacity = 1
  /\ num_batches = 0
  /\ batches_pos = 0
  /\ queue = <<>>
  /\ cond_owner = "free"
  /\ notified = FALSE
  /\ thread_finished = FALSE
  /\ reached_end = FALSE
  /\ thread = [pc |-> "none", item |-> 0, raised |-> FALSE, error |-> <<>>]
  /\ main = [pc |-> "none", call |-> "none", hmd |-> "none"]
  /\ fd_hist = [put |-> 0, taken |-> <<>>, returned_false |-> FALSE,
                stop_returned |-> FALSE, blocked_at_stop |-> FALSE]

Next ==
  \/ Loop
  \/ ChunkerDequeue
  \/ ChunkerForward
  \/ ChunkerEnqueueChunk
  \/ BatcherDequeue
  \/ BatcherEnqueueNum
  \/ BatcherEnqueueOut
  \/ ConsumerDequeueNum
  \/ ConsumerDequeueUpTo
  \/ HaveMoreData
  \/ QueueStartThreads
  \/ QueueStopThreads
  \/ RequestStop

Spec == InitStaged /\ [][Next]_vars

\* ------------------------------------------------------------------------
\* Properties of the Batcher (SpecBatcher)
\* ------------------------------------------------------------------------
\* C1: every batch the Batcher seals has member_count <= max_seqs, and when
\* member_count >= 2, member_count * (maximum time length among its members)
\* is at most batch_size.
C1_BatchPackingInvariant ==
  \A j \in 1..Len(hist.last) :
    LET b == hist.last[j]
    IN  /\ b.count <= max_seqs
        /\ (b.count >= 2 => b.count * MaxOf(b.lens) <= batch_size)

\* C2: the step that dequeues the epoch-end sentinel enqueues exactly one
\* count, equal to the number of members pending at that moment, and the
\* counts sealed in the epoch sum to the number of data records dequeued in it.
C2_EpochEndFlush ==
  hist.epoch_done =>
    LET enqueued == batcher.num = <<>>     \* the flushed count is in _tf_batch_nums
    IN  /\ hist.stop_flushes = (IF enqueued THEN 1 ELSE 0)
        /\ hist.last # <<>>
        /\ hist.last[1].at_stop
        /\ hist.last[1].count = hist.last[1].pending_before
        /\ hist.last[1].count = Len(hist.last[1].lens)
        /\ (~enqueued => batcher.num = <<hist.last[1].count>>)
        /\ hist.sealed_sum + (IF enqueued THEN 0 ELSE batcher.num[1]) = hist.deq
        /\ hist.pend = <<>>
        /\ cur_batch_num = 0

\* an epoch of at least two data records has ended, its last flush non-empty
C2_Witness ==
  /\ hist.epoch_done
  /\ batcher.num = <<>>
  /\ hist.deq >= 2
  /\ hist.last # <<>>
  /\ hist.last[1].count >= 1

\* ------------------------------------------------------------------------
\* Properties of the Chunker (SpecChunker)
\* ------------------------------------------------------------------------
Ceil(a, b) == (a + b - 1) \div b

\* the Chunker has emitted every chunk of the sequence at hand
SequenceChunked ==
  /\ chunk_size # <<>>
  /\ chunker.seq_item # <<>>
  /\ chunker.pc \in {"dequeue", "stopped"}

\* C3: for a sequence of length L the chunk starts are exactly 0, s, 2s, ...
\* below L, ceil(L / s) of them, and when s <= c every frame of [0, L) lies in
\* [seq_start, seq_end) of some chunk.
C3_ChunkCoverage ==
  (chunk_size # <<>> /\ chunker.seq_item # <<>>) =>
    LET L == Len(chunker.seq_item[1].data)
        starts == chunker.starts
    IN  /\ \A k \in 1..Len(starts) : starts[k] = (k - 1) * chunk_step /\ starts[k] < L
        /\ SequenceChunked =>
             /\ Len(starts) = Ceil(L, chunk_step)
             /\ (chunk_step <= chunk_size[1] =>
                   \A t \in 0..(L - 1) :
                     \E k \in 1..Len(starts) :
                       starts[k] <= t /\ t < Min(starts[k] + chunk_size[1], L))

\* a sequence cut into at least two chunks, the last one shorter than chunk_size
C3_Witness ==
  /\ SequenceChunked
  /\ Len(chunker.starts) >= 2
  /\ chunk_step <= chunk_size[1]
  /\ Len(chunker.seq_item[1].data) % chunk_size[1] # 0

\* What C4 says of one time-axis key: x the source array, y the chunk's array.
PaddedSlice(x, y, size_entry, seq_start, w, c) ==
  LET seq_end == Min(seq_start + c, Len(x))
  IN  /\ Len(y) = (seq_end - seq_start) + 2 * w
      /\ size_entry = (seq_end - seq_start) + 2 * w
      /\ \A j \in 1..Len(y) :
           LET t == seq_start - w + (j - 1)
           IN  y[j] = (IF 0 <= t /\ t < Len(x) THEN x[t + 1] ELSE 0)

\* C4: every chunk holds, for every time-axis key with context window w,
\* exactly (seq_end - seq_start) + 2w frames, its size entry is that number,
\* and its frames are the source frames, zero outside [0, L).
C4_PaddingCorrectness ==
  (chunk_size # <<>> /\ chunker.seq_item # <<>> /\ chunker.starts # <<>>) =>
    LET seq_item == chunker.seq_item[1]
        chunk == chunker.last[1]
        seq_start == chunker.starts[Len(chunker.starts)]
    IN  /\ PaddedSlice(seq_item.data, chunk.data, chunk.data_size0, seq_start,
                       context_window.data, chunk_size[1])
        /\ PaddedSlice(seq_item.classes, chunk.classes, chunk.classes_size0, seq_start,
                       context_window.classes, chunk_size[1])

\* ------------------------------------------------------------------------
\* Properties of FeedDictDataProvider (SpecFeedDict, FairSpecFeedDict)
\* ------------------------------------------------------------------------
\* C5: the queue never holds more than capacity batches; a put into the full
\* queue blocks and loses or overwrites nothing (every batch put is in the
\* queue or was taken, once, in the order put); a get from the empty queue
\* blocks, so every record taken is a batch that was put.
C5_QueueBackpressure ==
  /\ Len(queue) <= capacity
  /\ fd_hist.taken \o queue = [i \in 1..fd_hist.put |-> i - 1]
  /\ (thread.pc = "put" /\ Len(queue) = capacity => ~ENABLED ThreadPut)
  /\ (main.pc = "get" /\ queue = <<>> => ~ENABLED GetFeedDict)
  /\ (main.pc = "flush_get" /\ queue = <<>> => ~ENABLED FlushGet)

\* the producer is blocked in put on the full queue, after batches were taken
C5_Witness ==
  /\ thread.pc = "put"
  /\ Len(queue) = capacity
  /\ fd_hist.taken # <<>>

C7_TrueMeansGetDoesNotBlock ==
  main.hmd = "true" =>
    /\ queue # <<>>
    /\ (main.pc = "get" => ENABLED GetFeedDict)

\* the consumer is in get_feed_dict right after have_more_data returned True
C7_Witness ==
  /\ main.pc = "get"
  /\ main.hmd = "true"
  /\ thread.pc # "done"

\* C8: once have_more_data has returned False, the producer thread has
\* finished, the queue is empty and stays so, and every batch put was taken.
C8_FalseMeansFinishedAndEmpty ==
  fd_hist.returned_false =>
    /\ thread_finished
    /\ thread.pc = "done"
    /\ queue = <<>>
    /\ Len(fd_hist.taken) = fd_hist.put

\* have_more_data returned False after at least two batches went through
C8_Witness ==
  /\ fd_hist.returned_false
  /\ fd_hist.put >= 2

\* ------------------------------------------------------------------------
\* Properties of DatasetReader.loop (SpecReader)
\* ------------------------------------------------------------------------
\* the calls of feed_callback with a data record
DataCalls == SelectSeq(rd_hist.calls, LAMBDA c : ~c.epoch_end)

\* C10: loop calls feed_callback with the data records of the indices
\* 0, 1, 2, ... in this order, each once, and of no index for which
\* is_less_than_num_seqs is false; it leaves the loop earlier only on a stop
\* request or an error; when is_less_than_num_seqs(idx) is false,
\* finished_iterating_seqs is True and final_num_seqs is the number of data
\* records delivered, every sequence of the dataset.
C10_ReaderDeliversInOrder ==
  /\ \A i \in 1..Len(DataCalls) : DataCalls[i].seq_idx = i - 1
  /\ Len(DataCalls) <= Len(dataset)
  /\ rd_hist.delivered <= Len(DataCalls)
  /\ Len(DataCalls) <= rd_hist.delivered + 1
  /\ (finished_iterating_seqs <=> final_num_seqs # <<>>)
  /\ (finished_iterating_seqs =>
        /\ final_num_seqs = <<rd_hist.delivered>>
        /\ Len(DataCalls) = rd_hist.delivered
        /\ rd_hist.delivered = Len(dataset))
  /\ (reader.pc = "done" /\ ~finished_iterating_seqs => coord_stop)

\* the reader went through a dataset of two sequences or more
C10_Witness ==
  /\ finished_iterating_seqs
  /\ rd_hist.delivered >= 2
  /\ reader.pc = "done"


\* ------------------------------------------------------------------------
\* Properties of the staged pipeline (Spec)
\* ------------------------------------------------------------------------
\* the number of chunks the chunker makes of a sequence of n frames: the
\* sequence itself without chunking, else one per start 0, step, 2 step, ... < n
NumChunks(n) == IF chunk_size = <<>> THEN 1 ELSE Ceil(n, chunk_step)

RECURSIVE TotalChunks(_)
TotalChunks(ds) ==
  IF ds = <<>> THEN 0 ELSE NumChunks(Head(ds).data) + TotalChunks(Tail(ds))

IsSentinel(d) == "epoch_end" \in DOMAIN d /\ d.epoch_end

C12_GetDataErrorAborts ==
  rd_hist.error = "get_data" =>
    /\ reader.pc = "done"
    /\ coord_stop
    /\ Len(rd_hist.calls) = reader.seq_idx
    /\ rd_hist.delivered = reader.seq_idx
    /\ \A j \in 1..Len(rd_hist.calls) :
         /\ rd_hist.calls[j].seq_idx = j - 1
         /\ ~IsSentinel(rd_hist.calls[j].d)
    /\ ~finished_iterating_seqs
    /\ final_num_seqs = <<>>

\* the dataset raised at index 1, after the record of index 0 was delivered
C12_Witness ==
  /\ rd_hist.error = "get_data"
  /\ reader.seq_idx = 1
  /\ rd_hist.delivered = 1


\* C19: when stop_threads of the QueueDataProvider has returned, the stop
\* is requested on the shared coordinator and the loops of the reader, the
\* chunker and the TFBatchingQueue have stopped.
C19_StopThreadsStopsLoops ==
  provider.stopped =>
    /\ coord_stop
    /\ reader.pc = "done"
    /\ chunker.pc = "stopped"
    /\ batcher.pc = "stopped"

\* ------------------------------------------------------------------------
\* More properties of FeedDictDataProvider (SpecFeedDict)
\* ------------------------------------------------------------------------
\* C13: an exception raised inside thread_main puts the shared coordinator
\* into the stop-requested state.
C13_ThreadErrorRequestsStop ==
  (thread.raised /\ thread.pc = "done") => coord_stop

\* C18: have_reached_end returns True only after the thread has left its
\* loop with the batch plan exhausted; it is False while the thread is
\* producing, and stays False when the thread was aborted by an exception or
\* stopped while batches remained.
C18_ReachedEndOnlyWhenExhausted ==
  /\ HaveReachedEnd =>
       /\ thread.pc \in {"finally", "done"}
       /\ ~BatchesHasMore
       /\ ~thread.raised
  /\ (thread.pc \in {"loop", "get_next_batch", "put", "notify", "advance", "after_loop"}
        => ~HaveReachedEnd)
  /\ (thread.raised => ~HaveReachedEnd)
  /\ (thread.pc = "done" /\ BatchesHasMore => ~HaveReachedEnd)

\* the thread was stopped while batches remained, after it had put a batch
C18_Witness ==
  /\ thread.pc = "done"
  /\ ~thread.raised
  /\ BatchesHasMore
  /\ coord_stop
  /\ fd_hist.put >= 1
  /\ ~HaveReachedEnd


C16_PassthroughUnchanged ==
  LET through == IF chunker.pc = "forward" THEN Len(chunker.deq) - 1
                 ELSE Len(chunker.deq)
  IN  /\ chunker.pc \in {"dequeue", "forward"}
      /\ Len(chunker.enq) = through
      /\ \A j \in 1..through : chunker.enq[j].item = chunker.deq[j]

\* two different records went through, with a chunk_step and a context
\* window that chunking would apply
C16_Witness ==
  /\ Len(chunker.enq) >= 2
  /\ chunker.enq[1].item.data # chunker.enq[2].item.data
  /\ context_window.data > 0
  /\ chunk_step > 1

\* ------------------------------------------------------------------------
\* More properties of the Batcher (SpecBatcher)
\* ------------------------------------------------------------------------
\* C15: no batch the consumer obtains (the records dequeue_up_to takes from
\* the output queue for a sealed member count) holds a record with
\* epoch_end = True.
C15_NoSentinelInBatch ==
  /\ \A j \in 1..Len(consumer.part) : ~IsSentinel(consumer.part[j])
  /\ \A b \in 1..Len(consumer.batch) :
       \A j \in 1..Len(consumer.batch[b]) : ~IsSentinel(consumer.batch[b][j])


\* ------------------------------------------------------------------------
\* The scenario of five sequences (SpecScenario)
\* ------------------------------------------------------------------------
\* the chunk starts the Chunker enqueued for the sequence seq_idx, in order
ChunkStartsOf(seq_idx) ==
  LET of == SelectSeq(chunker.enq, LAMBDA c : c.item.seq_idx = seq_idx)
  IN  [j \in 1..Len(of) |-> of[j].seq_start]

IsPrefix(a, b) == Len(a) <= Len(b) /\ \A j \in 1..Len(a) : a[j] = b[j]

ScenarioChunkStarts == <<<<0, 4, 8>>, <<0>>, <<0, 4>>, <<0, 4, 8>>, <<0>>>>

\* C17: for the lengths [10, 3, 7, 10, 1], chunk_size=4, chunk_step=4,
\* context_window=0, max_seqs=3, batch_size=12 the chunk starts per sequence
\* are [0,4,8], [0], [0,4], [0,4,8], [0], and every batch sealed from the
\* chunk stream followed by the sentinel has at most 3 members and
\* member_count * max_member_length <= 12.
C17_ScenarioChunksAndBatches ==
  /\ \A i \in 1..Len(Scenario.seq_lens) :
       /\ IsPrefix(ChunkStartsOf(i - 1), ScenarioChunkStarts[i])
       /\ (Len(chunker.deq) > i \/ (Len(chunker.deq) = i /\ chunker.pc = "dequeue"))
            => ChunkStartsOf(i - 1) = ScenarioChunkStarts[i]
  /\ \A j \in 1..Len(hist.last) :
       /\ hist.last[j].count <= 3
       /\ hist.last[j].count * MaxOf(hist.last[j].lens) <= 12

\* the whole stream went through: ten chunks, sealed in four batches, the
\* last one by the sentinel
C17_Witness ==
  /\ Len(chunker.enq) = 10
  /\ hist.epoch_done
  /\ hist.sealed_sum = 10
  /\ batch_counter = 4
  /\ consumer.data_got = 10



\* ------------------------------------------------------------------------
\* The rules of the Batcher's step (SpecBatcher)
\* ------------------------------------------------------------------------
\* C21: a step of the Batcher on a non-sentinel member applies the max_seqs
\* rule exactly when pending_count + 1 > max_seqs, and the rule flushes the
\* members pending before the step only (not the new one) and leaves a
\* pending batch of the new member alone: pending_count = 1,
\* pending_max_len = the new member's length.
C21_MaxSeqsRule ==
  \A j \in 1..Len(hist.step) :
    LET st == hist.step[j]
    IN  (~st.stop /\ (st.rule = "max_seqs" \/ st.count_before + 1 > max_seqs)) =>
          /\ st.count_before + 1 > max_seqs
          /\ st.flush = <<st.count_before>>
          /\ cur_batch_num = 1
          /\ cur_max_seq_len = st.seq_len

\* C22: on a non-sentinel member for which the max_seqs rule does not fire,
\* the Batcher flushes the pending members without the new one and starts a
\* pending batch of the new member alone if pending_count >= 2 and
\* max(pending_max_len, member_len) * (pending_count + 1) > batch_size, and
\* otherwise adds the member without a flush, pending_max_len becoming
\* max(pending_max_len, member_len).  (Steps with pending_count + 1 = max_seqs
\* are left out: they are the subject of C21.)
C22_BudgetRule ==
  \A j \in 1..Len(hist.step) :
    LET st == hist.step[j]
        n0 == st.count_before
        m1 == Max(st.max_len_before, st.seq_len)
    IN  (~st.stop /\ n0 + 1 < max_seqs) =>
          IF n0 >= 2 /\ m1 * (n0 + 1) > batch_size
            THEN /\ st.flush = <<n0>>
                 /\ cur_batch_num = 1
                 /\ cur_max_seq_len = st.seq_len
            ELSE /\ st.flush = <<>>
                 /\ cur_batch_num = n0 + 1
                 /\ cur_max_seq_len = m1

\* ------------------------------------------------------------------------
\* Cancellation (SpecReader)
\* ------------------------------------------------------------------------
\* C23: once the stop signal is requested, a background loop observes it at
\* its next iteration boundary and exits without delivering another record;
\* for DatasetReader.loop: no pass of the loop that begins after the request
\* calls feed_callback.
C23_NoDeliveryAfterStop ==
  \A j \in 1..Len(rd_hist.calls) : ~rd_hist.calls[j].after_stop

\* ------------------------------------------------------------------------
\* The condition variable of FeedDictDataProvider (FairSpecFeedDict)
\* ------------------------------------------------------------------------
\* C24: no wake-up is lost: under every interleaving, a call of
\* have_more_data that waits on state_change_cond is woken and returns (True
\* after a put, False after the producer finished); it does not stay in wait().
C24_NoLostWakeup ==
  (main.pc = "hmd_wait") ~> (main.pc \in {"idle", "flush_get", "join"})

\* the consumer is in wait(), the producer has put a batch and notified
C24_Witness ==
  /\ main.pc = "hmd_wait"
  /\ notified
  /\ queue # <<>>
  /\ ~thread_finished

\* ------------------------------------------------------------------------
\* The batch plan through the queue (SpecFeedDict)
\* ------------------------------------------------------------------------
\* C25: absent a stop request and absent errors, the batches the consumer has
\* taken, followed by those still in the queue, are the batches 0, 1, 2, ...
\* of the plan, each once and in plan order; the producer puts batch i before
\* it advances the plan past i, and when it has ended the whole plan was put.
C25_PlanDeliveredInOrder ==
  (~coord_stop /\ ~thread.raised) =>
    LET through == fd_hist.taken \o queue
    IN  /\ through = [i \in 1..Len(through) |-> i - 1]
        /\ Len(through) <= num_batches
        /\ Len(through) = batches_pos + (IF thread.pc \in {"notify", "advance"} THEN 1 ELSE 0)
        /\ (thread.pc \in {"put", "notify", "advance"} => thread.item = batches_pos)
        /\ (thread.pc \in {"after_loop", "finally", "done"} => Len(through) = num_batches)

\* the producer has ended without stop or error and the consumer has taken
\* the whole plan of at least two batches
C25_Witness ==
  /\ ~coord_stop
  /\ ~thread.raised
  /\ thread.pc = "done"
  /\ num_batches >= 2
  /\ Len(fd_hist.taken) = num_batches

\* C29: if a fetched slice's length differs from the frame length planned for
\* the sequence and key (a key of non-zero planned length), _get_next_batch
\* raises an error that names the length got, the length expected and the
\* seq_idx; the batch is never put into the queue and the plan is not
\* advanced past it.
C29_LengthMismatchAborts ==
  \A j \in 1..Len(thread.error) :
    LET err == thread.error[j]
        through == fd_hist.taken \o queue
    IN  /\ err.expected # 0
        /\ err.got # err.expected
        /\ err.seq_idx = batches_pos
        /\ \A i \in 1..Len(through) : through[i] # err.seq_idx
        /\ fd_hist.put = err.seq_idx
        /\ thread.pc \in {"finally", "done"}

\* the check failed for the second batch of the plan and the thread has ended
C29_Witness ==
  /\ thread.error # <<>>
  /\ thread.error[1].seq_idx = 1
  /\ thread.pc = "done"
  /\ fd_hist.put = 1

\* ------------------------------------------------------------------------
\* The Chunker's outer loop (SpecChunker)
\* ------------------------------------------------------------------------
\* C26: with a source that carries the epoch-end signal, the Chunker's outer
\* loop stops right after it has processed a record whose epoch_end is true
\* and otherwise goes on to the next sequence record, with chunking enabled
\* and with chunk_size=None alike; it never stops before the sentinel.
C26_StopsRightAfterSentinel ==
  source_has_epoch_end_signal =>
    LET deq == chunker.deq
    IN  /\ (chunker.pc = "stopped" =>
              /\ deq # <<>>
              /\ deq[Len(deq)].epoch_end
              /\ \A j \in 1..(Len(deq) - 1) : ~deq[j].epoch_end)
        /\ (chunker.pc = "dequeue" => \A j \in 1..Len(deq) : ~deq[j].epoch_end)

\* ------------------------------------------------------------------------
\* The order of the chunks (SpecScenario)
\* ------------------------------------------------------------------------
\* C27: the chunks of one sequence are enqueued in strictly increasing
\* seq_start order, and all chunks of a sequence are enqueued before any
\* chunk of the sequence dequeued next.
C27_ChunksInOrder ==
  LET enq == chunker.enq
      deq == chunker.deq
      Pos(idx) == CHOOSE k \in 1..Len(deq) : deq[k].seq_idx = idx
  IN  \A i \in 1..Len(enq) :
        /\ \E k \in 1..Len(deq) : deq[k].seq_idx = enq[i].item.seq_idx
        /\ \A j \in (i + 1)..Len(enq) :
             /\ Pos(enq[i].item.seq_idx) <= Pos(enq[j].item.seq_idx)
             /\ (enq[i].item.seq_idx = enq[j].item.seq_idx =>
                   enq[i].seq_start < enq[j].seq_start)

\* three sequences were chunked, the first and the third into several chunks
C27_Witness ==
  /\ Len(chunker.deq) >= 4
  /\ \E i, j \in 1..Len(chunker.enq) :
       /\ chunker.enq[i].item.seq_idx = 0 /\ chunker.enq[i].seq_start = 8
       /\ chunker.enq[j].item.seq_idx = 2 /\ chunker.enq[j].seq_start = 4

\* ------------------------------------------------------------------------
\* The sentinel and the chunk store (SpecShuffle)
\* ------------------------------------------------------------------------
\* the backing store the train flag selects
ChunkStore == IF train_flag THEN train_queue ELSE eval_queue

\* C28: in both modes, when the Batcher dequeues the epoch-end sentinel it
\* has dequeued every chunk record that was enqueued into the chunk queue
\* before the sentinel: none of them is still in the store (the records carry
\* their enqueue position as seq_idx).
C28_SentinelAfterItsChunks ==
  \A j \in 1..Len(batcher.v) :
    batcher.v[j].epoch_end =>
      \A i \in 1..Len(ChunkStore) : ChunkStore[i].seq_idx > batcher.v[j].seq_idx

\* ------------------------------------------------------------------------
\* The bookkeeping counters (SpecShuffle)
\* ------------------------------------------------------------------------
\* the step in which the consumer's dequeue_op returns a batch
ObtainsBatch ==
  \/ consumer.pc = "up_to" /\ consumer'.pc = "num"
  \/ consumer.pc = "num" /\ consumer'.pc = "num" /\ Len(tf_batch_nums') < Len(tf_batch_nums)

ChunkEmitted == chunk_size # <<>> /\ chunker.seq_item # <<>> /\ chunker.starts # <<>>

\* C34: every chunk emitted has, for a time-axis key, the time extent
\* chunk_size + 2 * context_window[key], the final chunk of a sequence
\* included: it is zero-padded up to the declared extent plus context.
\* (Stated for the keys that are as long as the default key; C39 is about
\* the others.)
C34_UniformChunkExtent ==
  ChunkEmitted =>
    LET chunk == chunker.last[1]
        seq_item == chunker.seq_item[1]
    IN  /\ Len(chunk.data) = chunk_size[1] + 2 * context_window.data
        /\ (Len(seq_item.classes) = Len(seq_item.data) =>
              Len(chunk.classes) = chunk_size[1] + 2 * context_window.classes)

\* C38: the inner chunk loop of a sequence of length L ends after exactly
\* ceil(L / chunk_step) iterations, none for L = 0: while it runs it has made
\* fewer iterations than that, each at the next multiple of chunk_step, and
\* when the sequence is done it has made exactly that many.
C38_ChunkLoopIterations ==
  (chunk_size # <<>> /\ chunker.seq_item # <<>>) =>
    LET L == DefaultDataSeqLen(chunker.seq_item[1])
        n == Len(chunker.starts)
    IN  /\ chunker.seq_start = n * chunk_step
        /\ (chunker.pc = "chunk" => n < Ceil(L, chunk_step))
        /\ (chunker.pc \in {"dequeue", "stopped"} => n = Ceil(L, chunk_step))
        /\ (L = 0 => n = 0 /\ chunker.pc # "chunk")

\* a sequence whose length is no multiple of chunk_step was cut in several
\* iterations with a step above 1
C38_Witness ==
  /\ SequenceChunked
  /\ chunk_step > 1
  /\ Len(chunker.seq_item[1].data) % chunk_step # 0
  /\ Len(chunker.starts) >= 2

\* C39: in every chunk emitted, the size entry of each time-axis key is at
\* least 2 * context_window[key] + 1: the chunk covers a real frame of the
\* key, also when the key is not as long as the default key 'data'.
C39_SizeEntryCoversAFrame ==
  ChunkEmitted =>
    LET chunk == chunker.last[1]
    IN  /\ chunk.data_size0 >= 2 * context_window.data + 1
        /\ chunk.classes_size0 >= 2 * context_window.classes + 1

\* ------------------------------------------------------------------------
\* The key set of the records (SpecReader)
\* ------------------------------------------------------------------------
\* _get_keys: for every data key that is not special the loop body runs
\* keys.add(keys), the set itself, which raises TypeError (a set is not
\* hashable).
GetKeysRaises == extern_data.has_data

\* _get_keys when it returns: no ordinary key was met, the set holds the
\* enabled special keys (with_seq_tag is off here)
GetKeys ==
  (IF with_seq_idx THEN {"seq_idx"} ELSE {})
    \cup (IF with_epoch_end THEN {"epoch_end"} ELSE {})

\* the key set the claim describes: every data key that is not special, one
\* size entry per size-bearing axis of it, and the enabled special keys
SchemaKeys ==
  (IF extern_data.has_data THEN {"data", "classes"} ELSE {})
    \cup (IF extern_data.has_data /\ extern_data.time_dim = <<>>
            THEN {"data_size0", "classes_size0"} ELSE {})
    \cup (IF with_seq_idx THEN {"seq_idx"} ELSE {})
    \cup (IF with_epoch_end THEN {"epoch_end"} ELSE {})

\* C35: _get_keys computes dict_keys at construction, the set consists of the
\* data keys, their size entries and the enabled special keys, and every
\* record the reader delivers, data record or sentinel, carries exactly it.
C35_RecordsCarryDictKeys ==
  /\ ~GetKeysRaises
  /\ GetKeys = SchemaKeys
  /\ \A j \in 1..Len(rd_hist.calls) : DOMAIN rd_hist.calls[j].d = GetKeys

\* ------------------------------------------------------------------------
\* The aborted epoch (Spec)
\* ------------------------------------------------------------------------
\* DatasetReader.loop has exited with sequences of the dataset left
LoopAborted == reader.pc = "done" /\ IsLessThanNumSeqs(reader.seq_idx)

\* C36: if DatasetReader.loop exits on a stop request or an exception and not
\* by exhausting the dataset, finished_iterating_seqs stays False and
\* final_num_seqs stays None, and have_more_data of the staged provider then
\* returns True on every call: it never reports the end of the epoch.
C36_AbortedEpochNeverEnds ==
  LoopAborted =>
    /\ ~finished_iterating_seqs
    /\ final_num_seqs = <<>>
    /\ provider.hmd # "false"

\* have_more_data has answered after the loop broke off on a stop request,
\* with sequences left
C36_Witness ==
  /\ LoopAborted
  /\ ~reader.raised
  /\ coord_stop
  /\ provider.hmd = "true"
  /\ reader.seq_idx >= 1

\* ------------------------------------------------------------------------
\* What stop_threads leaves behind (SpecFeedDict)
\* ------------------------------------------------------------------------
\* C37: when stop_threads has returned after a started thread, the batch
\* queue is empty, thread_finished is set and the thread has exited: every
\* batch that was put has been taken, by the consumer or by the drain, and
\* none is put afterwards.  As long as no thread was started, stop_threads
\* returns at once, without a stop request and without touching the queue.
C37_StopLeavesQueueEmpty ==
  /\ (fd_hist.stop_returned /\ main.pc # "new") =>
       /\ queue = <<>>
       /\ thread_finished
       /\ thread.pc = "done"
       /\ fd_hist.put = Len(fd_hist.taken)
  /\ main.pc = "new" =>
       /\ ~coord_stop
       /\ queue = <<>>
       /\ fd_hist.put = 0
       /\ thread.pc = "none"

\* stop_threads, called while the producer was blocked in put on the full
\* queue, has returned: the queued batches were discarded by the drain, and
\* batches of the plan were never produced
C37_Witness ==
  /\ fd_hist.stop_returned
  /\ main.pc = "idle"
  /\ fd_hist.blocked_at_stop
  /\ Len(fd_hist.taken) >= 2
  /\ batches_pos < num_batches

\* ------------------------------------------------------------------------
\* TFDataQueues on its own (SpecQueues): enqueue, dequeue and have_more
\* called under a train flag that the caller sets per call.
\* ------------------------------------------------------------------------
QueuesRecords == {Record(i, <<>>, <<>>) : i \in 0..1}

InitQueues ==
  /\ train_flag \in BOOLEAN
  /\ chunk_queue_capacity \in 1..QueuesMaxCapacity
  /\ have_more_result = <<>>
  /\ train_queue = <<>>
  /\ eval_queue = <<>>
  /\ chunk_size = <<>>
  /\ chunk_step = 1
  /\ context_window = [data |-> 0, classes |-> 0]
  /\ source_has_epoch_end_signal = FALSE
  /\ seq_queue = <<>>
  /\ chunker = [pc |-> "stopped", seq_item |-> <<>>, seq_start |-> 0, starts |-> <<>>,
                last |-> <<>>, deq |-> <<>>, enq |-> <<>>]
  /\ fed = 0
  /\ NoBatchingQueue
  /\ NoFeedDictProvider
  /\ NoDatasetReader

beyond_queues == <<batcher_vars, chunker_vars, feed_dict_vars, coord_stop, reader_vars,
                   provider, fed, hist>>

\* the global train flag placeholder is fed by the caller
SetTrainFlag ==
  /\ train_flag' = ~train_flag
  /\ UNCHANGED <<chunk_queue_capacity, train_queue, eval_queue, have_more_result,
                 beyond_queues>>

\* TFDataQueues.enqueue: tf_session.run(self.enqueue_op)
QueuesEnqueue ==
  /\ \E r \in QueuesRecords : Enqueue(r)
  /\ UNCHANGED beyond_queues

\* tf_session.run of the op of make_dequeue_op
QueuesDequeue ==
  /\ \E i \in DequeuePositions : DequeueAt(i)
  /\ UNCHANGED beyond_queues

\* TFDataQueues.have_more: tf_session.run(self.have_more_op)
QueuesHaveMore ==
  /\ have_more_result' = <<[result |-> HaveMore, train_flag |-> train_flag,
                            train_size |-> Len(train_queue),
                            eval_size |-> Len(eval_queue)]>>
  /\ UNCHANGED <<train_flag, chunk_queue_capacity, train_queue, eval_queue,
                 beyond_queues>>

NextQueues == SetTrainFlag \/ QueuesEnqueue \/ QueuesDequeue \/ QueuesHaveMore

SpecQueues == InitQueues /\ [][NextQueues]_vars

\* C32: enqueue, dequeue and have_more act on the store the train flag
\* selects at the call, train_queue when true and eval_queue when false: a
\* call leaves the contents of the other store unchanged and changes the size
\* of the selected one by one, and have_more answers true exactly when the
\* selected store is not empty.
C32_OnlySelectedStore ==
  /\ [][train_flag' = train_flag =>
          /\ (train_flag => eval_queue' = eval_queue)
          /\ (~train_flag => train_queue' = train_queue)
          /\ (<<train_queue, eval_queue>>' # <<train_queue, eval_queue>> =>
                IF train_flag
                  THEN Len(train_queue') \in {Len(train_queue) - 1, Len(train_queue) + 1}
                  ELSE Len(eval_queue') \in {Len(eval_queue) - 1, Len(eval_queue) + 1})]_vars
  /\ [](have_more_result # <<>> =>
          LET h == have_more_result[1]
          IN  h.result = (IF h.train_flag THEN h.train_size > 0 ELSE h.eval_size > 0))

\* have_more answered false in eval mode while the train store held records
C32_Witness ==
  /\ have_more_result # <<>>
  /\ ~have_more_result[1].result
  /\ ~have_more_result[1].train_flag
  /\ have_more_result[1].train_size >= 2
  /\ train_queue # <<>>
  /\ eval_queue = <<>>

\* C33: in training mode a dequeue from the train store, of capacity C and
\* minimum fill int(0.8 * C), happens only if the store holds at least the
\* minimum fill afterwards; otherwise the dequeue blocks, also when the store
\* is not empty and have_more answers true.
C33_MinimumFill ==
  /\ [][(train_flag /\ train_flag' /\ Len(train_queue') < Len(train_queue)) =>
          Len(train_queue') >= MinAfterDequeue(chunk_queue_capacity)]_vars
  /\ []((train_flag /\ Len(train_queue) - 1 < MinAfterDequeue(chunk_queue_capacity))
          => ~ENABLED QueuesDequeue)

\* the train store holds a record, have_more has just answered true, and the
\* dequeue blocks
C33_Witness ==
  /\ train_flag
  /\ train_queue # <<>>
  /\ have_more_result # <<>>
  /\ have_more_result[1].result
  /\ have_more_result[1].train_flag
  /\ have_more_result[1].train_size = Len(train_queue)
  /\ ~ENABLED QueuesDequeue

\* ------------------------------------------------------------------------
\* Two FeedDictDataProvider threads on one dataset (SpecSharedDataset):
\* thread_main calling _get_next_batch, cut at the calls into the dataset
\* and at the lock.
\* ------------------------------------------------------------------------
InitSharedDataset ==
  /\ extern_data = [has_data |-> TRUE, time_dim |-> <<>>]
  /\ dataset = <<>>
  /\ sharing = [lock |-> 0,
                pos |-> [p \in Providers |-> "loop"],
                left |-> [p \in Providers |-> SharedBatches],
                seq |-> [p \in Providers |-> 0]]
  /\ with_seq_idx = TRUE
  /\ with_epoch_end = TRUE
  /\ finished_iterating_seqs = FALSE
  /\ final_num_seqs = <<>>
  /\ reader = [pc |-> "none", seq_idx |-> 0, d |-> <<>>, raised |-> FALSE]
  /\ rd_hist = [calls |-> <<>>, delivered |-> 0, error |-> "none"]
  /\ provider = [last_seq_idx |-> <<>>, hmd |-> "none", started |-> FALSE,
                 stopped |-> FALSE]
  /\ train_flag = FALSE
  /\ chunk_queue_capacity = ChunkQueueCapacity
  /\ have_more_result = <<>>
  /\ train_queue = <<>>
  /\ eval_queue = <<>>
  /\ chunk_size = <<>>
  /\ chunk_step = 1
  /\ context_window = [data |-> 0, classes |-> 0]
  /\ source_has_epoch_end_signal = FALSE
  /\ seq_queue = <<>>
  /\ chunker = [pc |-> "stopped", seq_item |-> <<>>, seq_start |-> 0, starts |-> <<>>,
                last |-> <<>>, deq |-> <<>>, enq |-> <<>>]
  /\ fed = 0
  /\ NoBatchingQueue
  /\ NoFeedDictProvider

beyond_sharing == <<batcher_vars, chunk_queue_vars, chunker_vars, feed_dict_vars,
                    coord_stop, extern_data, dataset, with_seq_idx, with_epoch_end,
                    finished_iterating_seqs, final_num_seqs, reader, rd_hist,
                    provider, fed, hist>>

\* while self.batches.has_more(): _get_next_batch runs up to the call
\* self.dataset.load_seqs(batch.start_seq, batch.end_seq)
SharedLoop ==
  \E p \in Providers :
    /\ sharing.pos[p] = "loop"
    /\ sharing' = [sharing EXCEPT
                     !.pos[p] = IF sharing.left[p] > 0 THEN "load_seqs" ELSE "done"]
    /\ UNCHANGED beyond_sharing

\* load_seqs returns
SharedLoadSeqs ==
  \E p \in Providers :
    /\ sharing.pos[p] = "load_seqs"
    /\ sharing' = [sharing EXCEPT !.pos[p] = "acquire"]
    /\ UNCHANGED beyond_sharing

\* with self.dataset.lock:
SharedAcquire ==
  \E p \in Providers :
    /\ sharing.pos[p] = "acquire"
    /\ sharing.lock = 0
    /\ sharing' = [sharing EXCEPT !.lock = p, !.pos[p] = "slices", !.seq[p] = 0]
    /\ UNCHANGED beyond_sharing

\* for seq in batch.seqs: v = self.dataset.get_data_slice(...)
SharedGetDataSlice ==
  \E p \in Providers :
    /\ sharing.pos[p] = "slices"
    /\ sharing.seq[p] < SharedSeqs
    /\ sharing' = [sharing EXCEPT !.seq[p] = @ + 1]
    /\ UNCHANGED beyond_sharing

\* raise Exception("got shape[0]: ..."): the with block releases the lock and
\* thread_main ends
SharedSliceRaises ==
  \E p \in Providers :
    /\ sharing.pos[p] = "slices"
    /\ sharing.seq[p] < SharedSeqs
    /\ sharing' = [sharing EXCEPT !.lock = 0, !.pos[p] = "done"]
    /\ UNCHANGED beyond_sharing

\* the with block ends; the batch is put and self.batches.advance(1)
SharedRelease ==
  \E p \in Providers :
    /\ sharing.pos[p] = "slices"
    /\ sharing.seq[p] = SharedSeqs
    /\ sharing' = [sharing EXCEPT !.lock = 0, !.pos[p] = "loop", !.left[p] = @ - 1]
    /\ UNCHANGED beyond_sharing

NextSharedDataset ==
  \/ SharedLoop
  \/ SharedLoadSeqs
  \/ SharedAcquire
  \/ SharedGetDataSlice
  \/ SharedSliceRaises
  \/ SharedRelease

SpecSharedDataset == InitSharedDataset /\ [][NextSharedDataset]_vars

\* C31: every call of dataset.load_seqs by a FeedDictDataProvider is made
\* while the provider holds dataset.lock, so with two providers on one
\* dataset a load_seqs call overlaps neither a load_seqs call nor the
\* get_data_slice reads of the other provider.
C31_LoadSeqsUnderLock ==
  \A p \in Providers :
    sharing.pos[p] = "load_seqs" =>
      /\ sharing.lock = p
      /\ \A q \in Providers \ {p} : sharing.pos[q] \notin {"load_seqs", "slices"}

============================================================================
